---- MODULE Spec2Model ----
(***************************************************************************)
(* Model of the sheet nesting solver of src/lib/planterSolver.ts           *)
(* (runPlanterSolver and the functions it calls).  The file holds two      *)
(* snapshots of the solver; the second one (lines 658-1564) redeclares     *)
(* every function of the first and is the one modelled here.               *)
(*                                                                         *)
(* Numbers.  Lengths are integers counted in eighths of an inch, so that   *)
(* the 2.125 in lip is the integer 17.  A cost per square foot is counted  *)
(* in cents.  Every amount of money the code obtains as                    *)
(* (area / 144) * costPerSqft is carried multiplied by SqftArea (the       *)
(* number of square units in a square foot), i.e. as area * costPerSqft,   *)
(* so that the division is exact; comparisons between such amounts are     *)
(* the comparisons the code makes.                                         *)
(***************************************************************************)
EXTENDS Integers, Sequences, FiniteSets, TLC

VARIABLES
    planterInput,     \* argument planterInput
    fabricationDims,  \* argument fabricationDims
    breakdowns,       \* argument breakdowns
    options,          \* argument options: inventory, linerHeightPercent
    pc,               \* position in runPlanterSolver
    sheetRows,        \* const sheetRows
    panels,           \* const panels
    candidateQueue,   \* const candidateQueue
    queueIndex,       \* loop variable queueIndex (1-based here)
    sheetInstances,   \* const sheetInstances (mutated in place)
    rowUsage,         \* const rowUsage (mutated in place)
    placements,       \* const placements
    placedPanels,     \* const placedPanels
    bundleSavings,    \* let bundleSavings
    lastStep,         \* what the latest loop iteration did
    result,           \* the returned SolverResult, or the thrown error
    previous          \* the caller's copy of the result of an earlier call

vars == <<planterInput, fabricationDims, breakdowns, options, pc, sheetRows,
          panels, candidateQueue, queueIndex, sheetInstances, rowUsage,
          placements, placedPanels, bundleSavings, lastStep, result, previous>>

inputVars == <<planterInput, fabricationDims, breakdowns, options>>

-----------------------------------------------------------------------------
(* Bounds of the model *)

MaxRows == 2        \* longest inventory list
MaxQuantity == 2    \* largest quantity of an inventory row

-----------------------------------------------------------------------------
(* Units *)

In(inches) == 8 * inches

SqftArea == 144 * 8 * 8

Infinity == 1000000

LINER_HEIGHT_PERCENT == 50

-----------------------------------------------------------------------------
(* Small helpers *)

Max2(a, b) == IF a >= b THEN a ELSE b

MinOf(S) == CHOOSE m \in S : \A n \in S : m <= n

Range(s) == {s[i] : i \in 1..Len(s)}

\* value is evaluated once and handed to Use
Bind(value, Use(_)) == CHOOSE r \in { Use(v) : v \in {value} } : TRUE

RECURSIVE SumPrices(_)
SumPrices(rows) ==
    IF rows = <<>> THEN 0 ELSE rows[1].price + SumPrices(Tail(rows))

RECURSIVE AreaOf(_)
AreaOf(ps) ==
    IF ps = <<>> THEN 0 ELSE ps[1].width * ps[1].height + AreaOf(Tail(ps))

\* String.prototype.localeCompare on the names and ids that occur: the
\* position in the collation order, punctuation and space before letters.
CollationOrder ==
    << "Floor", "Floor + Long A", "Floor + Long B", "Floor + Short A",
       "Floor + Short B", "L-cut (Long A + Short A)",
       "L-cut (Long B + Short B)", "Liner Bottom", "Liner Long A",
       "Liner Long B", "Liner Short A", "Liner Short B", "Long A", "Long B",
       "Shelf", "Short A", "Short B",
       "sheet-4x8-2-73", "sheet-4x8-20-5", "sheet-4x8-3-45", "sheet-4x8-5-1",
       "sheet-4x8-9-25", "sheet-5x10-3-25", "sheet-5x12-15",
       "sheet-a", "sheet-b", "sheet-c", "sheet-d", "sheet-h" >>

CollationRank(s) == CHOOSE i \in 1..Len(CollationOrder) : CollationOrder[i] = s

LocaleCompare(a, b) == CollationRank(a) - CollationRank(b)

-----------------------------------------------------------------------------
(* buildFabricationDimensions *)

\* dimensions that leave the lip out
buildFabricationDimensionsNoLip(input) ==
    [length |-> input.length,
     width  |-> input.width,
     height |-> input.height]

buildFabricationDimensions(input) ==
    [length |-> input.length,
     width  |-> input.width,
     height |-> input.height + input.lip]

-----------------------------------------------------------------------------
(* buildPanels *)

Panel(id, name, width, height, type, isLiner) ==
    [id |-> id, name |-> name, width |-> width, height |-> height,
     type |-> type, isLiner |-> isLiner]

\* the liner panels pushed without the test of line 1002
LinerPanelsUnchecked(input, linerHeightPercent) ==
    LET linerLength == Max2(input.length - input.linerDepth, 0)
        linerWidth  == Max2(input.width - input.linerDepth, 0)
        linerHeight == Max2((input.height * linerHeightPercent) \div 100, 0)
    IN  IF input.linerEnabled
        THEN << Panel("panel-liner-bottom", "Liner Bottom", linerWidth, linerLength, "liner", TRUE),
                Panel("panel-liner-long-a", "Liner Long A", linerLength, linerHeight, "long", TRUE),
                Panel("panel-liner-long-b", "Liner Long B", linerLength, linerHeight, "long", TRUE),
                Panel("panel-liner-short-a", "Liner Short A", linerWidth, linerHeight, "short", TRUE),
                Panel("panel-liner-short-b", "Liner Short B", linerWidth, linerHeight, "short", TRUE) >>
        ELSE << >>

LinerPanels(input, linerHeightPercent) ==
    LET linerLength == Max2(input.length - input.linerDepth, 0)
        linerWidth  == Max2(input.width - input.linerDepth, 0)
        linerHeight == Max2((input.height * linerHeightPercent) \div 100, 0)
    IN  IF input.linerEnabled /\ linerLength > 0 /\ linerWidth > 0 /\ linerHeight > 0
        THEN << Panel("panel-liner-bottom", "Liner Bottom", linerWidth, linerLength, "liner", TRUE),
                Panel("panel-liner-long-a", "Liner Long A", linerLength, linerHeight, "long", TRUE),
                Panel("panel-liner-long-b", "Liner Long B", linerLength, linerHeight, "long", TRUE),
                Panel("panel-liner-short-a", "Liner Short A", linerWidth, linerHeight, "short", TRUE),
                Panel("panel-liner-short-b", "Liner Short B", linerWidth, linerHeight, "short", TRUE) >>
        ELSE << >>

\* the floor panel is pushed whether or not the floor is enabled
buildPanelsFloorAlways(fabrication, input, linerHeightPercent) ==
    << Panel("panel-floor", "Floor", fabrication.width, fabrication.length, "floor", FALSE) >>
    \o << Panel("panel-long-a", "Long A", fabrication.length, fabrication.height, "long", FALSE),
          Panel("panel-long-b", "Long B", fabrication.length, fabrication.height, "long", FALSE),
          Panel("panel-short-a", "Short A", fabrication.width, fabrication.height, "short", FALSE),
          Panel("panel-short-b", "Short B", fabrication.width, fabrication.height, "short", FALSE) >>
    \o (IF input.shelfEnabled
        THEN << Panel("panel-shelf", "Shelf", fabrication.width, fabrication.length, "shelf", FALSE) >>
        ELSE << >>)
    \o LinerPanels(input, linerHeightPercent)

buildPanels(fabrication, input, linerHeightPercent) ==
    (IF input.floorEnabled
     THEN << Panel("panel-floor", "Floor", fabrication.width, fabrication.length, "floor", FALSE) >>
     ELSE << >>)
    \o << Panel("panel-long-a", "Long A", fabrication.length, fabrication.height, "long", FALSE),
          Panel("panel-long-b", "Long B", fabrication.length, fabrication.height, "long", FALSE),
          Panel("panel-short-a", "Short A", fabrication.width, fabrication.height, "short", FALSE),
          Panel("panel-short-b", "Short B", fabrication.width, fabrication.height, "short", FALSE) >>
    \o (IF input.shelfEnabled
        THEN << Panel("panel-shelf", "Shelf", fabrication.width, fabrication.length, "shelf", FALSE) >>
        ELSE << >>)
    \o LinerPanels(input, linerHeightPercent)

-----------------------------------------------------------------------------
(* buildCandidates *)

LCutBundleIds == {"bundle-panel-long-a-panel-short-a", "bundle-panel-long-b-panel-short-b"}

isLCutBundleCandidate(candidateId) == candidateId \in LCutBundleIds

adjacency ==
    << [anchor |-> "panel-floor", partner |-> "panel-long-a", label |-> "Floor + Long A",
        id |-> "bundle-panel-floor-panel-long-a"],
       [anchor |-> "panel-floor", partner |-> "panel-long-b", label |-> "Floor + Long B",
        id |-> "bundle-panel-floor-panel-long-b"],
       [anchor |-> "panel-floor", partner |-> "panel-short-a", label |-> "Floor + Short A",
        id |-> "bundle-panel-floor-panel-short-a"],
       [anchor |-> "panel-floor", partner |-> "panel-short-b", label |-> "Floor + Short B",
        id |-> "bundle-panel-floor-panel-short-b"],
       [anchor |-> "panel-long-a", partner |-> "panel-short-a", label |-> "L-cut (Long A + Short A)",
        id |-> "bundle-panel-long-a-panel-short-a"],
       [anchor |-> "panel-long-b", partner |-> "panel-short-b", label |-> "L-cut (Long B + Short B)",
        id |-> "bundle-panel-long-b-panel-short-b"] >>

getBundleLongestSide(candidateId, anchorPanel, partnerPanel) ==
    IF candidateId \in LCutBundleIds
    THEN Max2(anchorPanel.width + partnerPanel.width, anchorPanel.height)
    ELSE Max2(Max2(anchorPanel.width, anchorPanel.height),
              Max2(partnerPanel.width, partnerPanel.height))

SingleCandidate(panel, baseCostPerSqft) ==
    [id |-> "candidate-" \o panel.id,
     name |-> panel.name,
     panels |-> <<panel>>,
     totalArea |-> panel.width * panel.height,
     longestSide |-> Max2(panel.width, panel.height),
     costImpact |-> panel.width * panel.height * baseCostPerSqft,
     bundleSavings |-> 0,
     isBundle |-> FALSE]

PanelById(ps, id) == ps[CHOOSE i \in 1..Len(ps) : ps[i].id = id]

HasPanel(ps, id) == \E i \in 1..Len(ps) : ps[i].id = id

BundleCandidate(adj, ps, baseCostPerSqft) ==
    LET anchorPanel  == PanelById(ps, adj.anchor)
        partnerPanel == PanelById(ps, adj.partner)
        areaSum == anchorPanel.width * anchorPanel.height
                   + partnerPanel.width * partnerPanel.height
    IN  [id |-> adj.id,
         name |-> adj.label,
         panels |-> <<anchorPanel, partnerPanel>>,
         totalArea |-> areaSum,
         longestSide |-> getBundleLongestSide(adj.id, anchorPanel, partnerPanel),
         costImpact |-> areaSum * baseCostPerSqft,
         bundleSavings |-> 0,
         isBundle |-> TRUE]

RECURSIVE BundlesFrom(_, _, _)
BundlesFrom(i, ps, baseCostPerSqft) ==
    IF i > Len(adjacency) THEN << >>
    ELSE (IF HasPanel(ps, adjacency[i].anchor) /\ HasPanel(ps, adjacency[i].partner)
          THEN << BundleCandidate(adjacency[i], ps, baseCostPerSqft) >>
          ELSE << >>)
         \o BundlesFrom(i + 1, ps, baseCostPerSqft)

buildCandidates(ps, baseCostPerSqft) ==
    [singleCandidates |-> [i \in 1..Len(ps) |-> SingleCandidate(ps[i], baseCostPerSqft)],
     bundleCandidates |-> BundlesFrom(1, ps, baseCostPerSqft)]

-----------------------------------------------------------------------------
(* compareCandidates, buildOrderedSheetRows and Array.prototype.sort *)

\* the comparison without the precedence of the L-cut bundles
compareCandidatesByCost(a, b) ==
    IF a.costImpact # b.costImpact THEN a.costImpact - b.costImpact
    ELSE IF a.totalArea # b.totalArea THEN a.totalArea - b.totalArea
    ELSE IF a.longestSide # b.longestSide THEN a.longestSide - b.longestSide
    ELSE LocaleCompare(a.name, b.name)

compareCandidates(a, b) ==
    LET aIsLCut == isLCutBundleCandidate(a.id)
        bIsLCut == isLCutBundleCandidate(b.id)
    IN  IF aIsLCut # bIsLCut THEN (IF aIsLCut THEN -1 ELSE 1)
        ELSE IF a.costImpact # b.costImpact THEN a.costImpact - b.costImpact
        ELSE IF a.totalArea # b.totalArea THEN a.totalArea - b.totalArea
        ELSE IF a.longestSide # b.longestSide THEN a.longestSide - b.longestSide
        ELSE LocaleCompare(a.name, b.name)

getSheetCost(width, height, costPerSqft) == width * height * costPerSqft

\* the comparison by cost per square foot and id alone
compareSheetRowsByRate(a, b) ==
    IF a.costPerSqft # b.costPerSqft THEN a.costPerSqft - b.costPerSqft
    ELSE LocaleCompare(a.id, b.id)

compareSheetRows(a, b) ==
    LET sheetCostA == getSheetCost(a.width, a.height, a.costPerSqft)
        sheetCostB == getSheetCost(b.width, b.height, b.costPerSqft)
    IN  IF sheetCostA # sheetCostB THEN sheetCostA - sheetCostB
        ELSE IF a.costPerSqft # b.costPerSqft THEN a.costPerSqft - b.costPerSqft
        ELSE LocaleCompare(a.id, b.id)

\* Array.prototype.sort with a comparator: every arrangement of the elements
\* in which no element is followed by one the comparator puts before it.
\* The order of elements that compare equal is left to the engine (stable
\* only from ES2019 on), so all of them are outcomes.
RECURSIVE SortedCandidates(_, _)
SortedCandidates(s, rest) ==
    IF rest = {} THEN { << >> }
    ELSE UNION { { <<s[i]>> \o t : t \in SortedCandidates(s, rest \ {i}) } :
                 i \in { j \in rest : \A k \in rest : compareCandidates(s[j], s[k]) <= 0 } }

RECURSIVE SortedSheetRows(_, _)
SortedSheetRows(s, rest) ==
    IF rest = {} THEN { << >> }
    ELSE UNION { { <<s[i]>> \o t : t \in SortedSheetRows(s, rest \ {i}) } :
                 i \in { j \in rest : \A k \in rest : compareSheetRows(s[j], s[k]) <= 0 } }

\* the outcomes of buildOrderedSheetRows(inventory)
buildOrderedSheetRows(inventory) == SortedSheetRows(inventory, 1..Len(inventory))

\* The first snapshot of the solver (lines 1-657) orders the rows by the
\* options: lines 458-471.
compareSheetRowsByCostPerSqft(a, b) ==
    IF a.costPerSqft # b.costPerSqft THEN a.costPerSqft - b.costPerSqft
    ELSE LocaleCompare(a.id, b.id)

RECURSIVE SortedByCostPerSqft(_, _)
SortedByCostPerSqft(s, rest) ==
    IF rest = {} THEN { << >> }
    ELSE UNION { { <<s[i]>> \o t : t \in SortedByCostPerSqft(s, rest \ {i}) } :
                 i \in { j \in rest :
                            \A k \in rest : compareSheetRowsByCostPerSqft(s[j], s[k]) <= 0 } }

\* inventory.find((row) => row.id === rowId): the first such row, or nothing
FindRow(inventory, rowId) ==
    IF \E i \in 1..Len(inventory) : inventory[i].id = rowId
    THEN << inventory[MinOf({ i \in 1..Len(inventory) : inventory[i].id = rowId })] >>
    ELSE << >>

\* manualRowOrder.map(find).filter(Boolean)
RECURSIVE ManualRows(_, _)
ManualRows(inventory, manualRowOrder) ==
    IF manualRowOrder = << >> THEN << >>
    ELSE FindRow(inventory, Head(manualRowOrder))
         \o ManualRows(inventory, Tail(manualRowOrder))

\* line 459
manualOrderGiven(opts) ==
    /\ "mode" \in DOMAIN opts
    /\ opts.mode = "manual"
    /\ "manualRowOrder" \in DOMAIN opts
    /\ Len(opts.manualRowOrder) # 0

\* an orderer that sorts the rows whatever the mode
buildOrderedSheetRowsSortedOnly(inventory, opts) ==
    SortedByCostPerSqft(inventory, 1..Len(inventory))

\* the outcomes of buildOrderedSheetRows(inventory, options) of the first
\* snapshot
buildOrderedSheetRowsWithOptions(inventory, opts) ==
    IF manualOrderGiven(opts)
    THEN { ManualRows(inventory, opts.manualRowOrder) }
    ELSE SortedByCostPerSqft(inventory, 1..Len(inventory))

\* the outcomes of [...bundleCandidates.sort(c), ...singleCandidates.sort(c)]
CandidateQueues(built) ==
    { b \o s : b \in SortedCandidates(built.bundleCandidates, 1..Len(built.bundleCandidates)),
               s \in SortedCandidates(built.singleCandidates, 1..Len(built.singleCandidates)) }

-----------------------------------------------------------------------------
(* Geometry: getOrientations, rectanglesOverlap, findPlacementOnSheet *)

getOrientations(width, height) ==
    << [width |-> width, height |-> height, rotated |-> FALSE] >>
    \o (IF width # height
        THEN << [width |-> height, height |-> width, rotated |-> TRUE] >>
        ELSE << >>)

\* a test that only asks whether the other rectangle's origin corner lies in
\* the rectangle
cornerInsideRectangle(x, y, width, height, ox, oy, owidth, oheight) ==
    /\ x <= ox /\ ox < x + width
    /\ y <= oy /\ oy < y + height

rectanglesOverlap(x, y, width, height, ox, oy, owidth, oheight) ==
    ~(x + width <= ox \/ ox + owidth <= x \/ y + height <= oy \/ oy + oheight <= y)

OverlapsAny(ps, x, y, width, height) ==
    \E i \in 1..Len(ps) :
        rectanglesOverlap(x, y, width, height, ps[i].x, ps[i].y, ps[i].width, ps[i].height)

xOptions(sheet) == {0} \cup {sheet.placements[i].x + sheet.placements[i].width :
                              i \in 1..Len(sheet.placements)}

yOptions(sheet) == {0} \cup {sheet.placements[i].y + sheet.placements[i].height :
                              i \in 1..Len(sheet.placements)}

\* the positions accepted when the inner loop does not compare x + width with
\* the sheet's width
AnchorsUncheckedWidth(sheet, o) ==
    { a \in yOptions(sheet) \X xOptions(sheet) :
        /\ ~(a[1] + o.height > sheet.height)
        /\ ~OverlapsAny(sheet.placements, a[2], a[1], o.width, o.height) }

\* the positions the two nested loops accept for one orientation
FreeAnchors(sheet, o) ==
    { a \in yOptions(sheet) \X xOptions(sheet) :
        /\ ~(a[1] + o.height > sheet.height)
        /\ ~(a[2] + o.width > sheet.width)
        /\ ~OverlapsAny(sheet.placements, a[2], a[1], o.width, o.height) }

\* the first of them with x in the outer loop and y in the inner
FirstAnchorByColumn(S) ==
    CHOOSE a \in S : \A b \in S : a[2] < b[2] \/ (a[2] = b[2] /\ a[1] <= b[1])

\* the first of them: y ascending in the outer loop, x ascending in the inner
FirstAnchor(S) ==
    CHOOSE a \in S : \A b \in S : a[1] < b[1] \/ (a[1] = b[1] /\ a[2] <= b[2])

AtAnchor(o, anchor) ==
    [x |-> anchor[2], y |-> anchor[1], width |-> o.width, height |-> o.height,
     rotated |-> o.rotated]

\* the two nested loops for one orientation: its first free anchor, or nothing
FitOrientation(o, free) ==
    IF free = {} THEN << >> ELSE << AtAnchor(o, FirstAnchor(free)) >>

\* the loop over the orientations from the i-th on: it returns at the first
\* orientation that has a free anchor
RECURSIVE FindFrom(_, _, _)
FindFrom(i, sheet, orientations) ==
    IF i > Len(orientations) THEN << >>
    ELSE Bind(Bind(FreeAnchors(sheet, orientations[i]),
                   LAMBDA free : FitOrientation(orientations[i], free)),
              LAMBDA fit : IF fit # << >> THEN fit
                           ELSE FindFrom(i + 1, sheet, orientations))

\* null is the empty sequence, a result is a sequence of one record
findPlacementOnSheet(sheet, width, height) ==
    Bind(getOrientations(width, height), LAMBDA orientations : FindFrom(1, sheet, orientations))

isPlacementInsideSheet(sheet, placement) ==
    /\ placement.x >= 0
    /\ placement.y >= 0
    /\ placement.x + placement.width <= sheet.width
    /\ placement.y + placement.height <= sheet.height

arePlacementsValidForSheet(sheet, ps) ==
    /\ \A i \in 1..Len(ps) : isPlacementInsideSheet(sheet, ps[i])
    /\ \A i \in 1..Len(ps) : \A j \in (i + 1)..Len(ps) :
          ~rectanglesOverlap(ps[i].x, ps[i].y, ps[i].width, ps[i].height,
                             ps[j].x, ps[j].y, ps[j].width, ps[j].height)
    /\ \A i \in 1..Len(ps) :
          ~OverlapsAny(sheet.placements, ps[i].x, ps[i].y, ps[i].width, ps[i].height)

-----------------------------------------------------------------------------
(* tryPlaceCandidate *)

\* instances numbered by a counter that is not reset between calls
SheetInstanceCounted(row, usage) ==
    [id |-> row.id \o "-"
            \o ToString(usage + 1 + (IF previous.kind = "result"
                                     THEN Len(previous.sheetUsages) ELSE 0)),
     rowId |-> row.id,
     name |-> row.name,
     width |-> row.width,
     height |-> row.height,
     costPerSqft |-> row.costPerSqft,
     placements |-> << >>,
     usedAreaIn2 |-> 0]

\* instances numbered from 0
SheetInstanceFromZero(row, usage) ==
    [id |-> row.id \o "-" \o ToString(usage),
     rowId |-> row.id,
     name |-> row.name,
     width |-> row.width,
     height |-> row.height,
     costPerSqft |-> row.costPerSqft,
     placements |-> << >>,
     usedAreaIn2 |-> 0]

SheetInstance(row, usage) ==
    [id |-> row.id \o "-" \o ToString(usage + 1),
     rowId |-> row.id,
     name |-> row.name,
     width |-> row.width,
     height |-> row.height,
     costPerSqft |-> row.costPerSqft,
     placements |-> << >>,
     usedAreaIn2 |-> 0]

Placement(candidate, panel, sheet, x, y, width, height, rotated, isBundle) ==
    [id |-> candidate.id \o "-" \o panel.id,
     candidateId |-> candidate.id,
     panelId |-> panel.id,
     name |-> panel.name,
     sheetInstanceId |-> sheet.id,
     rowId |-> sheet.rowId,
     x |-> x, y |-> y, width |-> width, height |-> height,
     rotated |-> rotated,
     isBundle |-> isBundle,
     isLiner |-> panel.isLiner,
     panelType |-> panel.type]

\* null is the empty sequence, a layout is a sequence of one record
getLCutBundleLayout(candidate, panelA, panelB) ==
    LET longPanel  == IF panelA.type = "long" THEN panelA ELSE panelB
        shortPanel == IF panelA.type = "long" THEN panelB ELSE panelA
    IN  IF candidate.id \notin LCutBundleIds THEN << >>
        ELSE IF longPanel.type # "long" \/ shortPanel.type # "short" THEN << >>
        ELSE IF longPanel.height # shortPanel.height THEN << >>
        ELSE << [totalLength |-> longPanel.width + shortPanel.width,
                 height |-> longPanel.height,
                 longLength |-> longPanel.width,
                 shortWidth |-> shortPanel.width] >>

\* lines 1363-1367 and 1420-1424: the pair is returned if it is valid
ValidatedPair(sheet, firstPlacement, secondPlacement) ==
    Bind(<<firstPlacement, secondPlacement>>,
         LAMBDA pair : IF arePlacementsValidForSheet(sheet, pair) THEN pair ELSE << >>)

\* the split is returned without the validation of lines 1363-1365
LCutSplitUnvalidated(sheet, candidate, panelA, panelB, lCutBundle, orientation, anchor) ==
    << Placement(candidate, panelA, sheet, anchor.x, anchor.y,
                 IF orientation.rotated THEN lCutBundle.height ELSE lCutBundle.longLength,
                 IF orientation.rotated THEN lCutBundle.longLength ELSE lCutBundle.height,
                 orientation.rotated, TRUE),
       Placement(candidate, panelB, sheet,
                 IF orientation.rotated THEN anchor.x ELSE anchor.x + lCutBundle.longLength,
                 IF orientation.rotated THEN anchor.y + lCutBundle.longLength ELSE anchor.y,
                 IF orientation.rotated THEN lCutBundle.height ELSE lCutBundle.shortWidth,
                 IF orientation.rotated THEN lCutBundle.shortWidth ELSE lCutBundle.height,
                 orientation.rotated, TRUE) >>

\* lines 1329-1367: the combined rectangle found at anchor is split in two
LCutSplit(sheet, candidate, panelA, panelB, lCutBundle, orientation, anchor) ==
    ValidatedPair(sheet,
        Placement(candidate, panelA, sheet, anchor.x, anchor.y,
                  IF orientation.rotated THEN lCutBundle.height ELSE lCutBundle.longLength,
                  IF orientation.rotated THEN lCutBundle.longLength ELSE lCutBundle.height,
                  orientation.rotated, TRUE),
        Placement(candidate, panelB, sheet,
                  IF orientation.rotated THEN anchor.x ELSE anchor.x + lCutBundle.longLength,
                  IF orientation.rotated THEN anchor.y + lCutBundle.longLength ELSE anchor.y,
                  IF orientation.rotated THEN lCutBundle.height ELSE lCutBundle.shortWidth,
                  IF orientation.rotated THEN lCutBundle.shortWidth ELSE lCutBundle.height,
                  orientation.rotated, TRUE))

LCutAnchored(sheet, candidate, panelA, panelB, lCutBundle, orientation, found) ==
    IF found = << >> THEN << >>
    ELSE LCutSplit(sheet, candidate, panelA, panelB, lCutBundle, orientation, found[1])

\* one pass of the loop over the orientations of the combined rectangle
LCutAttempt(sheet, candidate, panelA, panelB, lCutBundle, orientation) ==
    Bind(findPlacementOnSheet(sheet, orientation.width, orientation.height),
         LAMBDA found :
             LCutAnchored(sheet, candidate, panelA, panelB, lCutBundle, orientation, found))

\* the loop from the i-th orientation on: it returns at the first pass that
\* yields a valid pair
RECURSIVE LCutFrom(_, _, _, _, _, _, _)
LCutFrom(i, sheet, candidate, panelA, panelB, lCutBundle, orientations) ==
    IF i > Len(orientations) THEN << >>
    ELSE Bind(LCutAttempt(sheet, candidate, panelA, panelB, lCutBundle, orientations[i]),
              LAMBDA pair :
                  IF pair # << >> THEN pair
                  ELSE LCutFrom(i + 1, sheet, candidate, panelA, panelB, lCutBundle,
                                orientations))

LCutLayout(sheet, candidate, panelA, panelB, layout) ==
    IF layout = << >> THEN << >>
    ELSE Bind(getOrientations(layout[1].totalLength, layout[1].height),
              LAMBDA orientations :
                  LCutFrom(1, sheet, candidate, panelA, panelB, layout[1], orientations))

\* the L-cut block, lines 1321-1369
LCutPath(sheet, candidate, panelA, panelB) ==
    Bind(getLCutBundleLayout(candidate, panelA, panelB),
         LAMBDA layout : LCutLayout(sheet, candidate, panelA, panelB, layout))

\* panel A is returned alone when panel B finds no place
PairSecondOrFirstAlone(sheet, candidate, panelB, orientationB, firstPlacement, second) ==
    IF second = << >> THEN << firstPlacement >>
    ELSE << firstPlacement,
            Placement(candidate, panelB, sheet, second[1].x, second[1].y,
                      second[1].width, second[1].height, orientationB.rotated, TRUE) >>

\* lines 1406-1424
PairSecond(sheet, candidate, panelB, orientationB, firstPlacement, second) ==
    IF second = << >> THEN << >>
    ELSE ValidatedPair(sheet, firstPlacement,
             Placement(candidate, panelB, sheet, second[1].x, second[1].y,
                       second[1].width, second[1].height, orientationB.rotated, TRUE))

PairOnSimulated(sheet, simulated, candidate, panelB, orientationB, firstPlacement) ==
    Bind(findPlacementOnSheet(simulated, orientationB.width, orientationB.height),
         LAMBDA second :
             PairSecond(sheet, candidate, panelB, orientationB, firstPlacement, second))

\* lines 1394-1401: panel B is searched on the sheet with panel A added
PairInner(sheet, candidate, panelB, orientationB, firstPlacement) ==
    Bind([sheet EXCEPT !.placements = Append(sheet.placements, firstPlacement)],
         LAMBDA simulated :
             PairOnSimulated(sheet, simulated, candidate, panelB, orientationB, firstPlacement))

\* the inner loop over B's orientations from the j-th on
RECURSIVE PairInnerFrom(_, _, _, _, _, _)
PairInnerFrom(j, sheet, candidate, panelB, orientationsB, firstPlacement) ==
    IF j > Len(orientationsB) THEN << >>
    ELSE Bind(PairInner(sheet, candidate, panelB, orientationsB[j], firstPlacement),
              LAMBDA pair :
                  IF pair # << >> THEN pair
                  ELSE PairInnerFrom(j + 1, sheet, candidate, panelB, orientationsB,
                                     firstPlacement))

\* lines 1376-1391
PairFirst(sheet, candidate, panelA, panelB, orientationA, orientationsB, first) ==
    IF first = << >> THEN << >>
    ELSE Bind(Placement(candidate, panelA, sheet, first[1].x, first[1].y,
                        first[1].width, first[1].height, orientationA.rotated, TRUE),
              LAMBDA firstPlacement :
                  PairInnerFrom(1, sheet, candidate, panelB, orientationsB, firstPlacement))

\* one pass of the outer loop of the ordinary bundle path
PairAttempt(sheet, candidate, panelA, panelB, orientationA, orientationsB) ==
    Bind(findPlacementOnSheet(sheet, orientationA.width, orientationA.height),
         LAMBDA first :
             PairFirst(sheet, candidate, panelA, panelB, orientationA, orientationsB, first))

\* the outer loop over A's orientations from the i-th on
RECURSIVE PairFrom(_, _, _, _, _, _, _)
PairFrom(i, sheet, candidate, panelA, panelB, orientationsA, orientationsB) ==
    IF i > Len(orientationsA) THEN << >>
    ELSE Bind(PairAttempt(sheet, candidate, panelA, panelB, orientationsA[i], orientationsB),
              LAMBDA pair :
                  IF pair # << >> THEN pair
                  ELSE PairFrom(i + 1, sheet, candidate, panelA, panelB, orientationsA,
                                orientationsB))

PairOrientations(sheet, candidate, panelA, panelB, orientationsA) ==
    Bind(getOrientations(panelB.width, panelB.height),
         LAMBDA orientationsB :
             PairFrom(1, sheet, candidate, panelA, panelB, orientationsA, orientationsB))

\* the ordinary bundle path, lines 1371-1428
PairPath(sheet, candidate, panelA, panelB) ==
    Bind(getOrientations(panelA.width, panelA.height),
         LAMBDA orientationsA : PairOrientations(sheet, candidate, panelA, panelB, orientationsA))

\* lines 1297-1318
SinglePlacement(sheet, candidate, panel, placement) ==
    IF placement = << >> THEN << >>
    ELSE << Placement(candidate, panel, sheet, placement[1].x, placement[1].y,
                      placement[1].width, placement[1].height, placement[1].rotated, FALSE) >>

\* the L-cut block returns, or else the ordinary path decides
OrElse(lCut, ordinary) == IF lCut # << >> THEN lCut ELSE ordinary

\* null is the empty sequence
tryPlaceCandidate(sheet, candidate) ==
    IF Len(candidate.panels) = 1
    THEN Bind(findPlacementOnSheet(sheet, candidate.panels[1].width, candidate.panels[1].height),
              LAMBDA placement :
                  SinglePlacement(sheet, candidate, candidate.panels[1], placement))
    ELSE Bind(LCutPath(sheet, candidate, candidate.panels[1], candidate.panels[2]),
              LAMBDA lCut :
                  OrElse(lCut, PairPath(sheet, candidate, candidate.panels[1],
                                        candidate.panels[2])))

-----------------------------------------------------------------------------
(* canFitCandidatesOnSingleSheet *)

PanelIds(candidate) == {candidate.panels[i].id : i \in 1..Len(candidate.panels)}

\* lines 1277-1286
FitAttempt(temp, nextCandidate, attempt) ==
    IF attempt = << >> THEN [temp EXCEPT !.fits = FALSE]
    ELSE [fits |-> TRUE,
          tempSheet |->
              [temp.tempSheet EXCEPT
                  !.placements = temp.tempSheet.placements \o attempt,
                  !.usedAreaIn2 = temp.tempSheet.usedAreaIn2 + AreaOf(attempt)],
          tempPlacedPanels |-> temp.tempPlacedPanels \cup PanelIds(nextCandidate)]

\* one pass of the loop over the candidates; fits = FALSE once the loop has
\* returned false
FitNextCandidate(temp, nextCandidate) ==
    IF ~temp.fits \/ PanelIds(nextCandidate) \cap temp.tempPlacedPanels # {} THEN temp
    ELSE Bind(tryPlaceCandidate(temp.tempSheet, nextCandidate),
              LAMBDA attempt : FitAttempt(temp, nextCandidate, attempt))

\* the loop over the candidates from the i-th on
RECURSIVE FitOnTempSheet(_, _, _)
FitOnTempSheet(i, temp, candidates) ==
    IF i > Len(candidates) THEN temp
    ELSE Bind(FitNextCandidate(temp, candidates[i]),
              LAMBDA next : FitOnTempSheet(i + 1, next, candidates))

FitFromEmptySheet(row, candidates) ==
    Bind([fits |-> TRUE,
          tempSheet |-> [SheetInstance(row, 0) EXCEPT !.id = "temp-sheet"],
          tempPlacedPanels |-> {}],
         LAMBDA temp : FitOnTempSheet(1, temp, candidates))

canFitCandidatesOnSingleSheet(row, candidates) ==
    Bind(candidates, LAMBDA queued : FitFromEmptySheet(row, queued)).fits

-----------------------------------------------------------------------------
(* placeCandidateOnSheets *)

wasteAfter(sheetAreaIn2, usedAreaIn2, attempt) ==
    Max2(0, sheetAreaIn2 - (usedAreaIn2 + AreaOf(attempt)))

\* the first open instance that takes the candidate is kept
BetterExistingFirstFit(bestExisting, i, instance, attempt) ==
    IF attempt = << >> \/ bestExisting # << >> THEN bestExisting
    ELSE << [instance |-> i, attempt |-> attempt,
             wasteAfterIn2 |->
                 Max2(0, instance.width * instance.height
                         - (instance.usedAreaIn2 + AreaOf(attempt)))] >>

\* lines 1160-1168; bestExisting is << >> (null) or one record, and instance is
\* the position of the instance in sheetInstances
BetterExisting(bestExisting, i, instance, attempt) ==
    IF attempt = << >> THEN bestExisting
    ELSE IF bestExisting = << >>
            \/ wasteAfter(instance.width * instance.height, instance.usedAreaIn2, attempt)
                 < bestExisting[1].wasteAfterIn2
    THEN << [instance |-> i, attempt |-> attempt,
             wasteAfterIn2 |->
                 wasteAfter(instance.width * instance.height, instance.usedAreaIn2, attempt)] >>
    ELSE bestExisting

\* one pass of the loop over the open instances
BetterExistingAt(bestExisting, i, candidate, instances) ==
    Bind(tryPlaceCandidate(instances[i], candidate),
         LAMBDA attempt : BetterExisting(bestExisting, i, instances[i], attempt))

\* the loop over the open instances, lines 1157-1169
RECURSIVE BestExistingFrom(_, _, _, _)
BestExistingFrom(i, bestExisting, candidate, instances) ==
    IF i > Len(instances) THEN bestExisting
    ELSE Bind(BetterExistingAt(bestExisting, i, candidate, instances),
              LAMBDA better : BestExistingFrom(i + 1, better, candidate, instances))

RowUsageOf(usage, rowId) == IF rowId \in DOMAIN usage THEN usage[rowId] ELSE 0

\* the quantity is enforced whether or not the row limits it
RowLimitEnforced(row) == Max2(0, row.quantity)

RowLimit(row) == IF row.limitQuantity THEN Max2(0, row.quantity) ELSE Infinity

\* the comparison by sheet cost and waste alone
IsCheaperNewSheet(canFitAllRemaining, sheetCost, wasteAfterIn2, bestNewSheet) ==
    \/ bestNewSheet = << >>
    \/ sheetCost < bestNewSheet[1].sheetCost
    \/ (sheetCost = bestNewSheet[1].sheetCost
        /\ wasteAfterIn2 < bestNewSheet[1].wasteAfterIn2)

\* lines 1221-1228
IsBetterNewSheet(canFitAllRemaining, sheetCost, wasteAfterIn2, bestNewSheet) ==
    \/ bestNewSheet = << >>
    \/ (canFitAllRemaining /\ ~bestNewSheet[1].canFitAllRemaining)
    \/ (canFitAllRemaining = bestNewSheet[1].canFitAllRemaining
        /\ sheetCost < bestNewSheet[1].sheetCost)
    \/ (canFitAllRemaining = bestNewSheet[1].canFitAllRemaining
        /\ sheetCost = bestNewSheet[1].sheetCost
        /\ wasteAfterIn2 < bestNewSheet[1].wasteAfterIn2)

\* lines 1221-1230
KeepBetterNewSheet(bestNewSheet, entry) ==
    IF IsBetterNewSheet(entry.canFitAllRemaining, entry.sheetCost, entry.wasteAfterIn2,
                        bestNewSheet)
    THEN << entry >>
    ELSE bestNewSheet

\* lines 1210-1230
BetterNewSheetWith(bestNewSheet, row, usage, attempt, candidate, remainingCandidates) ==
    IF attempt = << >> THEN bestNewSheet
    ELSE Bind([row |-> row, usage |-> usage, attempt |-> attempt,
               sheetCost |-> getSheetCost(row.width, row.height, row.costPerSqft),
               wasteAfterIn2 |-> wasteAfter(row.width * row.height, 0, attempt),
               canFitAllRemaining |->
                   canFitCandidatesOnSingleSheet(row, <<candidate>> \o remainingCandidates)],
              LAMBDA entry : KeepBetterNewSheet(bestNewSheet, entry))

\* lines 1198-1208: the candidate is tried on a fresh instance of the row
BetterNewSheetOn(bestNewSheet, row, usage, sheet, candidate, remainingCandidates) ==
    Bind(tryPlaceCandidate(sheet, candidate),
         LAMBDA attempt :
             BetterNewSheetWith(bestNewSheet, row, usage, attempt, candidate,
                                remainingCandidates))

BetterNewSheetAt(bestNewSheet, row, usage, candidate, remainingCandidates) ==
    Bind(SheetInstance(row, usage),
         LAMBDA sheet :
             BetterNewSheetOn(bestNewSheet, row, usage, sheet, candidate, remainingCandidates))

\* the pass with usage > limit in place of usage >= limit
BetterNewSheetPastLimit(bestNewSheet, row, candidate, usageByRow, remainingCandidates) ==
    IF RowUsageOf(usageByRow, row.id) > RowLimit(row) THEN bestNewSheet
    ELSE BetterNewSheetAt(bestNewSheet, row, RowUsageOf(usageByRow, row.id), candidate,
                          remainingCandidates)

\* one pass of the loop over the ordered rows, lines 1192-1230; bestNewSheet is
\* << >> (null) or one record
BetterNewSheet(bestNewSheet, row, candidate, usageByRow, remainingCandidates) ==
    IF RowUsageOf(usageByRow, row.id) >= RowLimit(row) THEN bestNewSheet
    ELSE BetterNewSheetAt(bestNewSheet, row, RowUsageOf(usageByRow, row.id), candidate,
                          remainingCandidates)

\* the loop over the ordered rows, lines 1191-1231
RECURSIVE BestNewSheetFrom(_, _, _, _, _, _)
BestNewSheetFrom(i, bestNewSheet, candidate, rows, usageByRow, remainingCandidates) ==
    IF i > Len(rows) THEN bestNewSheet
    ELSE Bind(BetterNewSheet(bestNewSheet, rows[i], candidate, usageByRow, remainingCandidates),
              LAMBDA better :
                  BestNewSheetFrom(i + 1, better, candidate, rows, usageByRow,
                                   remainingCandidates))

\* the attempt is pushed on the first open instance, whichever took it
CommitToExistingOnFirst(instances, usageByRow, best) ==
    [commit |-> best.attempt,
     how |-> "existing",
     sheetInstances |->
         [instances EXCEPT ![1] =
             [@ EXCEPT !.placements = @ \o best.attempt,
                       !.usedAreaIn2 = @ + AreaOf(best.attempt)]],
     rowUsage |-> usageByRow]

\* lines 1171-1178
CommitToExisting(instances, usageByRow, best) ==
    [commit |-> best.attempt,
     how |-> "existing",
     sheetInstances |->
         [instances EXCEPT ![best.instance] =
             [@ EXCEPT !.placements = @ \o best.attempt,
                       !.usedAreaIn2 = @ + AreaOf(best.attempt)]],
     rowUsage |-> usageByRow]

\* the new instance is pushed as it was created, the attempt stays on the
\* trial sheet
CommitToNewSheetLeftEmpty(instances, usageByRow, best) ==
    [commit |-> best.attempt,
     how |-> "new",
     sheetInstances |-> Append(instances, SheetInstance(best.row, best.usage)),
     rowUsage |->
         [id \in DOMAIN usageByRow \cup {best.row.id} |->
             IF id = best.row.id THEN best.usage + 1 ELSE usageByRow[id]]]

\* lines 1233-1253
CommitToNewSheet(instances, usageByRow, best) ==
    [commit |-> best.attempt,
     how |-> "new",
     sheetInstances |->
         Append(instances,
             [SheetInstance(best.row, best.usage) EXCEPT
                 !.placements = best.attempt,
                 !.usedAreaIn2 = AreaOf(best.attempt)]),
     rowUsage |->
         [id \in DOMAIN usageByRow \cup {best.row.id} |->
             IF id = best.row.id THEN best.usage + 1 ELSE usageByRow[id]]]

\* lines 1171, 1233 and 1255
CommitBest(instances, usageByRow, bestExisting, bestNewSheet) ==
    IF bestExisting # << >> THEN CommitToExisting(instances, usageByRow, bestExisting[1])
    ELSE IF bestNewSheet # << >> THEN CommitToNewSheet(instances, usageByRow, bestNewSheet[1])
    ELSE [commit |-> << >>, how |-> "none", sheetInstances |-> instances,
          rowUsage |-> usageByRow]

\* lines 1180-1231 are reached only when no open instance took the candidate
NewSheetUnless(bestExisting, candidate, rows, usageByRow, remainingCandidates) ==
    IF bestExisting # << >> THEN << >>
    ELSE BestNewSheetFrom(1, << >>, candidate, rows, usageByRow, remainingCandidates)

\* a new sheet is looked for first, the open instances serve only if no row takes
\* the candidate
CommitNewSheetFirst(candidate, instances, rows, usageByRow, remaining, bestExisting) ==
    Bind(BestNewSheetFrom(1, << >>, candidate, rows, usageByRow, remaining),
         LAMBDA bestNewSheet :
             IF bestNewSheet # << >>
             THEN CommitToNewSheet(instances, usageByRow, bestNewSheet[1])
             ELSE CommitBest(instances, usageByRow, bestExisting, << >>))

CommitAfterExisting(candidate, instances, rows, usageByRow, remaining, bestExisting) ==
    Bind(NewSheetUnless(bestExisting, candidate, rows, usageByRow, remaining),
         LAMBDA bestNewSheet : CommitBest(instances, usageByRow, bestExisting, bestNewSheet))

\* The call returns the commit (<< >> for null) and leaves sheetInstances and
\* rowUsage mutated; the mutated values are returned with it.
placeCandidateOnSheets(candidate, instances, rows, usageByRow, remainingCandidates) ==
    Bind(BestExistingFrom(1, << >>, candidate, instances),
         LAMBDA bestExisting :
             CommitAfterExisting(candidate, instances, rows, usageByRow, remainingCandidates,
                                 bestExisting))

-----------------------------------------------------------------------------
(* The inputs of a call *)

SheetRow(id, name, width, height, costPerSqft, quantity, limitQuantity) ==
    [id |-> id, name |-> name, width |-> width, height |-> height,
     costPerSqft |-> costPerSqft, quantity |-> quantity, limitQuantity |-> limitQuantity]

DEFAULT_SHEET_INVENTORY ==
    << SheetRow("sheet-4x8-2-73", "4x8 @ 2.73", In(48), In(96), 273, 10, TRUE),
       SheetRow("sheet-4x8-3-45", "4x8 @ 3.45", In(48), In(96), 345, 10, TRUE),
       SheetRow("sheet-4x8-5-1", "4x8 @ 5.10", In(48), In(96), 510, 10, TRUE),
       SheetRow("sheet-4x8-9-25", "4x8 @ 9.25", In(48), In(96), 925, 6, TRUE),
       SheetRow("sheet-4x8-20-5", "4x8 @ 20.50", In(48), In(96), 2050, 4, TRUE),
       SheetRow("sheet-5x10-3-25", "5x10 @ 3.25", In(60), In(120), 325, 6, TRUE),
       SheetRow("sheet-5x12-15", "5x12 @ 15.00", In(60), In(144), 1500, 3, TRUE) >>

\* the sheet types a caller lists: id, name, width, height, cents per sqft
Catalog ==
    { <<"sheet-a", "4x8", In(48), In(96), 273>>,
      <<"sheet-b", "5x10", In(60), In(120), 325>>,
      <<"sheet-c", "offcut", In(30), In(40), 500>> }

\* rows with an enforced quantity of 1..MaxQuantity, rows with no enforced
\* quantity, and one row whose enforced quantity is 0
CatalogRows ==
    { SheetRow(c[1], c[2], c[3], c[4], c[5], q, TRUE) : c \in Catalog, q \in 1..MaxQuantity }
    \cup { SheetRow(c[1], c[2], c[3], c[4], c[5], 0, FALSE) : c \in Catalog }
    \cup { SheetRow("sheet-c", "offcut", In(30), In(40), 500, 0, TRUE) }

\* lists of n rows with distinct ids, listed by id (which is not by cost)
RECURSIVE InventoriesOfLength(_)
InventoriesOfLength(n) ==
    IF n = 0 THEN { << >> }
    ELSE UNION { { Append(inv, row) :
                     row \in { r \in CatalogRows :
                                 \A i \in 1..(n - 1) : LocaleCompare(inv[i].id, r.id) < 0 } } :
                 inv \in InventoriesOfLength(n - 1) }

\* the lists above, the single row of 4x8 sheets at 2.73 with a quantity of
\* 10, 4x8 sheets with one larger remnant that costs less than a 4x8 sheet,
\* and 4x8 sheets with half sheets at the price of a whole one
Inventories ==
    UNION { InventoriesOfLength(n) : n \in 0..MaxRows }
    \cup { << DEFAULT_SHEET_INVENTORY[1] >> }
    \cup { << SheetRow("sheet-a", "4x8", In(48), In(96), 273, 0, FALSE),
              SheetRow("sheet-d", "4x10 remnant", In(48), In(120), 100, 1, TRUE) >>,
           << SheetRow("sheet-a", "4x8", In(48), In(96), 273, 0, FALSE),
              SheetRow("sheet-h", "4x4", In(48), In(48), 546, 0, FALSE) >> }

\* options with an inventory and the default liner height, and options with
\* no inventory (the default inventory is used) and a liner height of half
\* the box or of nothing
OptionChoices ==
    { [inventory |-> inv] : inv \in Inventories }
    \cup { [linerHeightPercent |-> percent] : percent \in {0, LINER_HEIGHT_PERCENT} }

\* box length, width, height, lip; floor, shelf, liner enabled; liner depth
PlanterChoices ==
    { <<In(36), In(24), In(24), 17, FALSE, FALSE, FALSE, In(2)>>,
      <<In(36), In(24), In(24), 17, TRUE,  FALSE, FALSE, In(2)>>,
      <<In(36), In(24), In(24), 0,  TRUE,  TRUE,  TRUE,  In(2)>>,
      <<In(36), In(24), In(24), 0,  TRUE,  FALSE, TRUE,  In(24)>>,
      <<In(24), In(24), In(12), 0,  FALSE, FALSE, FALSE, In(2)>>,
      <<In(24), In(24), In(12), 0,  TRUE,  FALSE, FALSE, In(2)>>,
      <<In(24), In(24), In(12), 0,  TRUE,  TRUE,  TRUE,  In(2)>>,
      <<In(48), In(36), In(36), 0,  TRUE,  FALSE, FALSE, In(2)>>,
      <<In(48), In(36), In(36), 17, TRUE,  TRUE,  FALSE, In(2)>>,
      <<In(48), In(36), In(36), 0,  TRUE,  TRUE,  TRUE,  In(2)>>,
      <<In(48), In(20), In(30), 17, TRUE,  FALSE, TRUE,  In(2)>>,
      <<In(72), In(30), In(20), 0,  FALSE, FALSE, FALSE, In(2)>> }

PlanterInputs ==
    { [length |-> c[1], width |-> c[2], height |-> c[3], lip |-> c[4],
       floorEnabled |-> c[5], shelfEnabled |-> c[6],
       linerEnabled |-> c[7], linerDepth |-> c[8]] : c \in PlanterChoices }

Price(dollars) == dollars * 100 * SqftArea

\* breakdown rows as the calculator resolves them, one row per category: a
\* category that is not selected has price 0
CalculatorRows(input) ==
    << [category |-> "Weld", tierUsed |-> "Low", price |-> Price(250)],
       [category |-> "Liner", tierUsed |-> IF input.linerEnabled THEN "Low" ELSE "Not Selected",
        price |-> IF input.linerEnabled THEN Price(90) ELSE 0],
       [category |-> "Shelf", tierUsed |-> IF input.shelfEnabled THEN "Low" ELSE "Not Selected",
        price |-> IF input.shelfEnabled THEN Price(40) ELSE 0] >>

\* the calculator's rows, or for a planter with a liner the rows of a caller
\* that resolves no Liner category
BreakdownChoices(input) ==
    { CalculatorRows(input) }
    \cup (IF input.linerEnabled
          THEN { SelectSeq(CalculatorRows(input), LAMBDA row : row.category # "Liner") }
          ELSE {})

Timestamps == {"t1", "t2"}

NoResult == [kind |-> "none"]

-----------------------------------------------------------------------------
(* runPlanterSolver *)

Init ==
    /\ planterInput \in PlanterInputs
    /\ fabricationDims = buildFabricationDimensions(planterInput)
    /\ breakdowns \in BreakdownChoices(planterInput)
    /\ options \in OptionChoices
    /\ pc = "start"
    /\ sheetRows = << >>
    /\ panels = << >>
    /\ candidateQueue = << >>
    /\ queueIndex = 1
    /\ sheetInstances = << >>
    /\ rowUsage = << >>
    /\ placements = << >>
    /\ placedPanels = {}
    /\ bundleSavings = 0
    /\ lastStep = "none"
    /\ result = NoResult
    /\ previous = NoResult

linerHeightPercentOf(opts) ==
    IF "linerHeightPercent" \in DOMAIN opts THEN opts.linerHeightPercent ELSE LINER_HEIGHT_PERCENT

\* a fallback to the default rows that also takes an empty list for a missing one
inventoryOrDefault(opts) ==
    IF "inventory" \in DOMAIN opts /\ opts.inventory # << >>
    THEN opts.inventory
    ELSE DEFAULT_SHEET_INVENTORY

inventoryOf(opts) ==
    IF "inventory" \in DOMAIN opts THEN opts.inventory ELSE DEFAULT_SHEET_INVENTORY

\* the rows are sorted where the caller keeps them
inventorySortedInPlace(inventory, rows) == rows

\* line 1137: [...inventory].sort(...) sorts a copy, the caller's array is
\* as it was
inventoryAfterSort(inventory, rows) == inventory

\* the caller's options once the rows are ordered
optionsAfterSort(opts, rows) ==
    IF "inventory" \in DOMAIN opts
    THEN [opts EXCEPT !.inventory = inventoryAfterSort(@, rows)]
    ELSE opts

\* called with at least one row (line 848 comes after the throw)
cheapestCostPerSqft(rows) == MinOf({rows[i].costPerSqft : i \in 1..Len(rows)})

\* line 843
noSheetRows(rows) == Len(rows) = 0

\* lines 839-845: the ordered rows are empty, the call throws
ThrowNoInventory ==
    /\ pc = "start"
    /\ \E rows \in buildOrderedSheetRows(inventoryOf(options)) :
          /\ noSheetRows(rows)
          /\ pc' = "threw"
          /\ result' = [kind |-> "error", message |-> "No sheet inventory provided to the solver."]
    /\ UNCHANGED <<inputVars, previous, sheetRows, panels, candidateQueue, queueIndex, sheetInstances,
                   rowUsage, placements, placedPanels, bundleSavings, lastStep>>

\* lines 839-860: rows, panels, candidates and queue are built, the solver
\* state is set up empty
Prepare ==
    /\ pc = "start"
    /\ \E rows \in buildOrderedSheetRows(inventoryOf(options)) :
          /\ ~noSheetRows(rows)
          /\ sheetRows' = rows
          /\ options' = optionsAfterSort(options, rows)
          /\ panels' = buildPanels(fabricationDims, planterInput, linerHeightPercentOf(options))
          /\ \E built \in {buildCandidates(panels', cheapestCostPerSqft(rows))} :
                \E queue \in CandidateQueues(built) : candidateQueue' = queue
    /\ queueIndex' = 1
    /\ sheetInstances' = << >>
    /\ rowUsage' = << >>
    /\ placements' = << >>
    /\ placedPanels' = {}
    /\ bundleSavings' = 0
    /\ pc' = "loop"
    /\ UNCHANGED <<planterInput, fabricationDims, breakdowns, previous, lastStep, result>>

InLoop == pc = "loop" /\ queueIndex <= Len(candidateQueue)

\* a loop that does not advance
SameQueueIndex(i) == i

\* line 862: queueIndex += 1
NextQueueIndex(i) == i + 1

\* the skip test with every in place of some
EveryPanelPlaced(candidate, placed) == PanelIds(candidate) \subseteq placed

AlreadyPlaced(candidate, placed) == PanelIds(candidate) \cap placed # {}

remainingCandidatesOf(queue, i, placed) ==
    SelectSeq(SubSeq(queue, i + 1, Len(queue)), LAMBDA queued : PanelIds(queued) \cap placed = {})

Outcome ==
    Bind(remainingCandidatesOf(candidateQueue, queueIndex, placedPanels),
         LAMBDA remainingCandidates :
             placeCandidateOnSheets(candidateQueue[queueIndex], sheetInstances, sheetRows,
                                    rowUsage, remainingCandidates))

\* lines 864-866: a panel of the candidate is already placed
SkipPlaced ==
    /\ InLoop
    /\ AlreadyPlaced(candidateQueue[queueIndex], placedPanels)
    /\ queueIndex' = NextQueueIndex(queueIndex)
    /\ lastStep' = "skip"
    /\ UNCHANGED <<inputVars, previous, pc, sheetRows, panels, candidateQueue, sheetInstances, rowUsage,
                   placements, placedPanels, bundleSavings, result>>

\* lines 884-890 after a commit
Commit(outcome) ==
    /\ sheetInstances' = outcome.sheetInstances
    /\ rowUsage' = outcome.rowUsage
    /\ placements' = placements \o outcome.commit
    /\ placedPanels' = placedPanels \cup {outcome.commit[i].panelId : i \in 1..Len(outcome.commit)}
    /\ bundleSavings' = bundleSavings + candidateQueue[queueIndex].bundleSavings
    /\ queueIndex' = NextQueueIndex(queueIndex)
    /\ UNCHANGED <<inputVars, previous, pc, sheetRows, panels, candidateQueue, result>>

\* lines 1157-1178: the candidate goes on an open instance
CommitExisting(outcome) ==
    /\ outcome.how = "existing"
    /\ Commit(outcome)
    /\ lastStep' = "existing"

\* lines 1180-1253: a new instance is opened for the candidate
CommitNew(outcome) ==
    /\ outcome.how = "new"
    /\ Commit(outcome)
    /\ lastStep' = "new"

\* a loop that gives up on the first candidate it cannot place
ThrowUnplaced(outcome) ==
    /\ outcome.how = "none"
    /\ pc' = "threw"
    /\ result' = [kind |-> "error", message |-> "Unable to place panel."]
    /\ sheetInstances' = outcome.sheetInstances
    /\ rowUsage' = outcome.rowUsage
    /\ lastStep' = "drop"
    /\ UNCHANGED <<inputVars, previous, sheetRows, panels, candidateQueue, queueIndex,
                   placements, placedPanels, bundleSavings>>

\* the panels of a candidate that found no place are marked as placed
DropCandidateMarked(outcome) ==
    /\ outcome.how = "none"
    /\ sheetInstances' = outcome.sheetInstances
    /\ rowUsage' = outcome.rowUsage
    /\ placedPanels' = placedPanels \cup PanelIds(candidateQueue[queueIndex])
    /\ queueIndex' = NextQueueIndex(queueIndex)
    /\ lastStep' = "drop"
    /\ UNCHANGED <<inputVars, previous, pc, sheetRows, panels, candidateQueue, placements,
                   bundleSavings, result>>

\* lines 880-882: placeCandidateOnSheets returned null
DropCandidate(outcome) ==
    /\ outcome.how = "none"
    /\ sheetInstances' = outcome.sheetInstances
    /\ rowUsage' = outcome.rowUsage
    /\ queueIndex' = NextQueueIndex(queueIndex)
    /\ lastStep' = "drop"
    /\ UNCHANGED <<inputVars, previous, pc, sheetRows, panels, candidateQueue, placements, placedPanels,
                   bundleSavings, result>>

\* lines 868-891: one iteration of the loop for a candidate that is not skipped
PlaceCandidate ==
    /\ InLoop
    /\ ~AlreadyPlaced(candidateQueue[queueIndex], placedPanels)
    /\ \E outcome \in {Outcome} :
          \/ CommitExisting(outcome)
          \/ CommitNew(outcome)
          \/ DropCandidate(outcome)

-----------------------------------------------------------------------------
(* lines 893-932: the aggregates and the returned result *)

sheetUsagesOf(instances) ==
    [i \in 1..Len(instances) |->
        [id |-> instances[i].id,
         rowId |-> instances[i].rowId,
         name |-> instances[i].name,
         width |-> instances[i].width,
         height |-> instances[i].height,
         costPerSqft |-> instances[i].costPerSqft,
         placements |-> instances[i].placements,
         areaUsedSqft |-> instances[i].usedAreaIn2]]

\* a total that charges each sheet for the area its placements cover
RECURSIVE coveredAreaCostOf(_)
coveredAreaCostOf(usages) ==
    IF usages = << >> THEN 0
    ELSE usages[1].areaUsedSqft * usages[1].costPerSqft + coveredAreaCostOf(Tail(usages))

RECURSIVE totalMaterialCostOf(_)
totalMaterialCostOf(usages) ==
    IF usages = << >> THEN 0
    ELSE usages[1].width * usages[1].height * usages[1].costPerSqft
         + totalMaterialCostOf(Tail(usages))

\* the base cost taken over every breakdown row
allRowsOf(rows) == rows

fabricationRowsOf(rows) == SelectSeq(rows, LAMBDA row : row.category # "Liner")

linerExtraCostOf(rows) ==
    LET liner == SelectSeq(rows, LAMBDA row : row.category = "Liner")
    IN  IF liner = << >> THEN 0 ELSE liner[1].price

totalFabricationCostOf(materialCost, rows) ==
    materialCost + SumPrices(fabricationRowsOf(rows)) + linerExtraCostOf(rows)

SolverResult(timestamp) ==
    LET sheetUsages == sheetUsagesOf(sheetInstances)
        totalMaterialCost == totalMaterialCostOf(sheetUsages)
    IN  [kind |-> "result",
         placements |-> placements,
         sheetUsages |-> sheetUsages,
         totalMaterialCost |-> totalMaterialCost,
         totalFabricationCost |-> totalFabricationCostOf(totalMaterialCost, breakdowns),
         materialAreaSqft |-> AreaOf(placements),
         bundleSavings |-> bundleSavings,
         linerAreaSqft |-> AreaOf(SelectSeq(panels, LAMBDA panel : panel.isLiner)),
         linerExtraCost |-> linerExtraCostOf(breakdowns),
         solverTimestamp |-> timestamp]

Return ==
    /\ pc = "loop"
    /\ queueIndex > Len(candidateQueue)
    /\ \E timestamp \in Timestamps : result' = SolverResult(timestamp)
    /\ pc' = "done"
    /\ UNCHANGED <<inputVars, previous, sheetRows, panels, candidateQueue, queueIndex, sheetInstances,
                   rowUsage, placements, placedPanels, bundleSavings, lastStep>>

Next ==
    \/ ThrowNoInventory
    \/ Prepare
    \/ SkipPlaced
    \/ PlaceCandidate
    \/ Return

Spec == Init /\ [][Next]_vars

\* the call is one thread of control: it takes its next step as long as it has one
FairSpec == Spec /\ WF_vars(Next)

\* handleCalculate runs again on the unchanged form: the caller keeps the
\* result it has, and the solver is called a second time with the same
\* arguments and fresh locals
CallAgain ==
    /\ pc \in {"done", "threw"}
    /\ previous = NoResult
    /\ previous' = result
    /\ pc' = "start"
    /\ sheetRows' = << >>
    /\ panels' = << >>
    /\ candidateQueue' = << >>
    /\ queueIndex' = 1
    /\ sheetInstances' = << >>
    /\ rowUsage' = << >>
    /\ placements' = << >>
    /\ placedPanels' = {}
    /\ bundleSavings' = 0
    /\ lastStep' = "none"
    /\ result' = NoResult
    /\ UNCHANGED inputVars

TwoCallsNext ==
    \/ ThrowNoInventory
    \/ Prepare
    \/ SkipPlaced
    \/ PlaceCandidate
    \/ Return
    \/ CallAgain

TwoCallsSpec == Init /\ [][TwoCallsNext]_vars

-----------------------------------------------------------------------------
(* The first snapshot's call up to the ordered rows, lines 175-192 *)

MaxListed == 2      \* longest manualRowOrder

\* rows whose order by id is not their order by cost
ListedRows ==
    { SheetRow(c[1], c[2], c[3], c[4], c[5], 0, FALSE) : c \in Catalog }
    \cup { DEFAULT_SHEET_INVENTORY[2], DEFAULT_SHEET_INVENTORY[5] }

\* lists of n rows with distinct ids, in any order
RECURSIVE ListedInventoriesOfLength(_)
ListedInventoriesOfLength(n) ==
    IF n = 0 THEN { << >> }
    ELSE UNION { { Append(inv, row) :
                     row \in { r \in ListedRows : \A i \in 1..(n - 1) : inv[i].id # r.id } } :
                 inv \in ListedInventoriesOfLength(n - 1) }

ListedInventories == UNION { ListedInventoriesOfLength(n) : n \in 0..MaxRows }

\* row ids a caller lists, in any order and number
RECURSIVE ManualOrdersOfLength(_)
ManualOrdersOfLength(n) ==
    IF n = 0 THEN { << >> }
    ELSE { Append(order, id) : order \in ManualOrdersOfLength(n - 1),
                               id \in {"sheet-a", "sheet-b", "sheet-4x8-20-5"} }

ManualOrders == UNION { ManualOrdersOfLength(n) : n \in 0..MaxListed }

\* options as App.tsx passes them (lines 366-370), and options without a mode
ModeOptionChoices ==
    { [inventory |-> inv, mode |-> mode, manualRowOrder |-> order] :
        inv \in ListedInventories, mode \in {"auto", "manual"}, order \in ManualOrders }
    \cup { [inventory |-> inv] : inv \in ListedInventories }

RowOrderInit ==
    /\ planterInput \in { input \in PlanterInputs : input.lip # 0 /\ ~input.floorEnabled }
    /\ fabricationDims = buildFabricationDimensions(planterInput)
    /\ breakdowns = CalculatorRows(planterInput)
    /\ options \in ModeOptionChoices
    /\ pc = "start"
    /\ sheetRows = << >>
    /\ panels = << >>
    /\ candidateQueue = << >>
    /\ queueIndex = 1
    /\ sheetInstances = << >>
    /\ rowUsage = << >>
    /\ placements = << >>
    /\ placedPanels = {}
    /\ bundleSavings = 0
    /\ lastStep = "none"
    /\ result = NoResult
    /\ previous = NoResult

\* lines 189-192: the ordered rows are empty, the call throws
OrderRowsThrow ==
    /\ pc = "start"
    /\ \E rows \in buildOrderedSheetRowsWithOptions(inventoryOf(options), options) :
          /\ noSheetRows(rows)
          /\ pc' = "threw"
          /\ result' = [kind |-> "error", message |-> "No sheet inventory provided to the solver."]
    /\ UNCHANGED <<inputVars, previous, sheetRows, panels, candidateQueue, queueIndex, sheetInstances,
                   rowUsage, placements, placedPanels, bundleSavings, lastStep>>

\* lines 186-190: the call goes on with the ordered rows
OrderRows ==
    /\ pc = "start"
    /\ \E rows \in buildOrderedSheetRowsWithOptions(inventoryOf(options), options) :
          /\ ~noSheetRows(rows)
          /\ sheetRows' = rows
          /\ pc' = "ordered"
    /\ UNCHANGED <<inputVars, previous, panels, candidateQueue, queueIndex, sheetInstances,
                   rowUsage, placements, placedPanels, bundleSavings, lastStep, result>>

RowOrderNext ==
    \/ OrderRowsThrow
    \/ OrderRows

RowOrderSpec == RowOrderInit /\ [][RowOrderNext]_vars

-----------------------------------------------------------------------------
(* Calls with the inventory listed in any order *)

\* 4x8 sheets under two ids at one price, half sheets at the price of a whole
\* one, larger sheets and an offcut, none with an enforced quantity
ShuffledRows ==
    { SheetRow(c[1], c[2], c[3], c[4], c[5], 0, FALSE) : c \in Catalog }
    \cup { [DEFAULT_SHEET_INVENTORY[1] EXCEPT !.limitQuantity = FALSE],
           SheetRow("sheet-h", "4x4", In(48), In(48), 546, 0, FALSE) }

\* lists of n rows with distinct ids, in any order
RECURSIVE ShuffledInventoriesOfLength(_)
ShuffledInventoriesOfLength(n) ==
    IF n = 0 THEN { << >> }
    ELSE UNION { { Append(inv, row) :
                     row \in { r \in ShuffledRows : \A i \in 1..(n - 1) : inv[i].id # r.id } } :
                 inv \in ShuffledInventoriesOfLength(n - 1) }

ShuffledInventories == UNION { ShuffledInventoriesOfLength(n) : n \in 0..MaxRows }

ShuffledInit ==
    /\ planterInput \in { input \in PlanterInputs : input.lip # 0 /\ ~input.linerEnabled }
    /\ fabricationDims = buildFabricationDimensions(planterInput)
    /\ breakdowns = CalculatorRows(planterInput)
    /\ options \in { [inventory |-> inv] : inv \in ShuffledInventories }
    /\ pc = "start"
    /\ sheetRows = << >>
    /\ panels = << >>
    /\ candidateQueue = << >>
    /\ queueIndex = 1
    /\ sheetInstances = << >>
    /\ rowUsage = << >>
    /\ placements = << >>
    /\ placedPanels = {}
    /\ bundleSavings = 0
    /\ lastStep = "none"
    /\ result = NoResult
    /\ previous = NoResult

ShuffledSpec == ShuffledInit /\ [][Next]_vars

-----------------------------------------------------------------------------
(* Properties of the placements *)

\* two rectangles share interior area
ShareArea(p, q) ==
    /\ p.x < q.x + q.width
    /\ q.x < p.x + p.width
    /\ p.y < q.y + q.height
    /\ q.y < p.y + p.height

PairwiseDisjoint(ps) ==
    \A i \in 1..Len(ps) : \A j \in 1..Len(ps) : i # j => ~ShareArea(ps[i], ps[j])

\* the sheets of the running call and, once it has returned, of its result
SheetsInPlay ==
    Range(sheetInstances)
    \cup (IF result.kind = "result" THEN Range(result.sheetUsages) ELSE {})

\* C1: after every commit of the candidate loop and in the returned result, no
\* two distinct placements on the same sheet instance overlap, whether they
\* come from single panels, ordinary bundles or L-cut bundles, rotated or not.
C1_NoOverlap ==
    \A sheet \in SheetsInPlay : PairwiseDisjoint(sheet.placements)

\* a returned sheet that carries an L-cut bundle, a rotated placement and a
\* placement of a single candidate side by side
C1_Witness ==
    /\ pc = "done"
    /\ \E u \in 1..Len(result.sheetUsages) :
          LET ps == result.sheetUsages[u].placements
          IN  /\ \E i \in 1..Len(ps) : isLCutBundleCandidate(ps[i].candidateId)
              /\ \E i \in 1..Len(ps) : ps[i].rotated
              /\ \E i \in 1..Len(ps) : ~ps[i].isBundle

\* C2: every placement lies fully inside the sheet instance that holds it:
\* x >= 0, y >= 0, x + width <= sheet.width and y + height <= sheet.height.
C2_InsideSheet ==
    \A sheet \in SheetsInPlay :
        \A i \in 1..Len(sheet.placements) :
            LET p == sheet.placements[i]
            IN  /\ p.x >= 0
                /\ p.y >= 0
                /\ p.x + p.width <= sheet.width
                /\ p.y + p.height <= sheet.height

\* a returned sheet with a placement that ends exactly on the sheet's far
\* edge, and a placement of a bundle away from the origin
C2_Witness ==
    /\ pc = "done"
    /\ \E u \in 1..Len(result.sheetUsages) :
          LET sheet == result.sheetUsages[u]
              ps == sheet.placements
          IN  /\ \E i \in 1..Len(ps) :
                    ps[i].x + ps[i].width = sheet.width \/ ps[i].y + ps[i].height = sheet.height
              /\ \E i \in 1..Len(ps) : ps[i].isBundle /\ (ps[i].x > 0 \/ ps[i].y > 0)

\* C3: no panel id appears in more than one placement, at any step and in the
\* result; a candidate with a panel in placedPanels is skipped.
C3_PanelPlacedOnce ==
    /\ \A i \in 1..Len(placements) : \A j \in 1..Len(placements) :
          i # j => placements[i].panelId # placements[j].panelId
    /\ result.kind = "result" =>
          \A i \in 1..Len(result.placements) : \A j \in 1..Len(result.placements) :
              i # j => result.placements[i].panelId # result.placements[j].panelId

\* the loop has just skipped a single candidate whose panel a bundle placed
C3_Witness ==
    /\ lastStep = "skip"
    /\ queueIndex > 1
    /\ Len(candidateQueue[queueIndex - 1].panels) = 1
    /\ \E i \in 1..Len(placements) :
          /\ placements[i].panelId = candidateQueue[queueIndex - 1].panels[1].id
          /\ placements[i].isBundle

InstancesOfRow(sheets, rowId) == { i \in 1..Len(sheets) : sheets[i].rowId = rowId }

\* C4: for every inventory row with limitQuantity = true, at every step and in
\* the result, the number of sheet instances created from the row is at most
\* the row's quantity.
C4_QuantityLimit ==
    \A r \in 1..Len(inventoryOf(options)) :
        LET row == inventoryOf(options)[r]
        IN  row.limitQuantity =>
              /\ Cardinality(InstancesOfRow(sheetInstances, row.id)) <= row.quantity
              /\ result.kind = "result" =>
                    Cardinality(InstancesOfRow(result.sheetUsages, row.id)) <= row.quantity

\* a limited row is used up, and a candidate that fits the row's sheet had to
\* go to an instance of another row or was dropped
C4_Witness ==
    /\ pc = "done"
    /\ \E r \in 1..Len(sheetRows) :
          /\ sheetRows[r].limitQuantity
          /\ sheetRows[r].quantity >= 1
          /\ Cardinality(InstancesOfRow(sheetInstances, sheetRows[r].id)) = sheetRows[r].quantity
          /\ \E i \in 1..Len(sheetInstances) :
                /\ i > MinOf(InstancesOfRow(sheetInstances, sheetRows[r].id))
                /\ sheetInstances[i].rowId # sheetRows[r].id
                /\ getSheetCost(sheetInstances[i].width, sheetInstances[i].height,
                                sheetInstances[i].costPerSqft)
                     > getSheetCost(sheetRows[r].width, sheetRows[r].height,
                                    sheetRows[r].costPerSqft)

-----------------------------------------------------------------------------
(* Properties of the call's outcome *)

EmptyInventoryPassed == "inventory" \in DOMAIN options /\ options.inventory = << >>

\* C5: with an empty inventory the call throws before any panel, candidate,
\* sheet instance or placement is built, and no result is returned.
C5_EmptyInventoryThrows ==
    EmptyInventoryPassed =>
        /\ pc \in {"start", "threw"}
        /\ pc = "threw" => result.kind = "error"
        /\ result.kind # "result"
        /\ panels = << >> /\ candidateQueue = << >>
        /\ sheetInstances = << >> /\ placements = << >> /\ placedPanels = {}

C5_Witness ==
    /\ EmptyInventoryPassed
    /\ pc = "threw"
    /\ result.kind = "error"

\* the panel fits the sheet in neither orientation
TooLarge(panel, row) ==
    /\ (panel.width > row.width \/ panel.height > row.height)
    /\ (panel.height > row.width \/ panel.width > row.height)

Starved ==
    \A r \in 1..Len(inventoryOf(options)) : \A i \in 1..Len(panels) :
        TooLarge(panels[i], inventoryOf(options)[r])

\* C6: with a non-empty inventory the call never throws, also when candidates
\* fit nowhere; when every sheet is too small for every panel the call returns
\* a result with no placement and no sheet instance.
C6_UnplaceableNeverThrows ==
    inventoryOf(options) # << >> =>
        /\ pc # "threw"
        /\ result.kind # "error"
        /\ (pc = "done" /\ Starved) =>
              /\ result.kind = "result"
              /\ result.placements = << >>
              /\ result.sheetUsages = << >>

\* the call returned for a single row of quantity 1 whose sheet fits no panel
C6_Witness ==
    /\ pc = "done"
    /\ Starved
    /\ lastStep = "drop"
    /\ Len(inventoryOf(options)) = 1
    /\ inventoryOf(options)[1].limitQuantity
    /\ inventoryOf(options)[1].quantity = 1
    /\ result.placements = << >>
    /\ result.sheetUsages = << >>

\* the breakdown rows name each category once
DistinctCategories(rows) ==
    \A i \in 1..Len(rows) : \A j \in 1..Len(rows) : i # j => rows[i].category # rows[j].category

LinerPriceOf(rows) ==
    IF \E i \in 1..Len(rows) : rows[i].category = "Liner"
    THEN rows[CHOOSE i \in 1..Len(rows) : rows[i].category = "Liner"].price
    ELSE 0

\* C7: in every result totalFabricationCost is totalMaterialCost plus the sum
\* of the prices of the breakdown rows, each category counted once, the Liner
\* row counted once as linerExtraCost; there is no further surcharge.
C7_FabricationCost ==
    (result.kind = "result" /\ DistinctCategories(breakdowns)) =>
        /\ result.totalFabricationCost = result.totalMaterialCost + SumPrices(breakdowns)
        /\ result.linerExtraCost = LinerPriceOf(breakdowns)

\* a result with sheets to pay for and a Liner row with a price
C7_Witness ==
    /\ pc = "done"
    /\ result.totalMaterialCost > 0
    /\ LinerPriceOf(breakdowns) > 0
    /\ result.linerExtraCost > 0

RECURSIVE FullSheetCost(_)
FullSheetCost(sheets) ==
    IF sheets = << >> THEN 0
    ELSE sheets[1].width * sheets[1].height * sheets[1].costPerSqft
         + FullSheetCost(Tail(sheets))

\* C8: totalMaterialCost is the sum over the opened sheet instances of
\* (width * height / 144) * costPerSqft, whatever part of a sheet is covered.
C8_FullSheetMaterialCost ==
    result.kind = "result" =>
        /\ result.totalMaterialCost = FullSheetCost(sheetInstances)
        /\ Len(result.sheetUsages) = Len(sheetInstances)

\* a result with two sheets, one of them covered only in part
C8_Witness ==
    /\ pc = "done"
    /\ Len(sheetInstances) >= 2
    /\ \E i \in 1..Len(sheetInstances) :
          /\ sheetInstances[i].usedAreaIn2 > 0
          /\ sheetInstances[i].usedAreaIn2 < sheetInstances[i].width * sheetInstances[i].height

-----------------------------------------------------------------------------
(* Two calls with the same arguments, and termination *)

WithoutTimestamp(r) ==
    IF r.kind = "result" THEN [r EXCEPT !.solverTimestamp = ""] ELSE r

\* C9: a second call with the same planterInput, fabricationDims, breakdowns
\* and options returns the result of the first call in every field but
\* solverTimestamp: the same placements in the same order with the same
\* coordinates, rotation and sheet instance, and the same sheets in the same
\* order.
C9_SameResultTwice ==
    (previous # NoResult /\ result # NoResult) =>
        WithoutTimestamp(result) = WithoutTimestamp(previous)

\* both calls returned, at different times, with several placements on sheets
C9_Witness ==
    /\ previous.kind = "result"
    /\ result.kind = "result"
    /\ result.solverTimestamp # previous.solverTimestamp
    /\ Len(result.placements) >= 3
    /\ Len(result.sheetUsages) >= 2

\* C10: the call terminates: the loop moves on by one candidate in every
\* iteration, so each candidate is attempted at most once, and the call ends
\* with a result or the throw, also for rows with limitQuantity = false.
C10_Terminates ==
    /\ [][(pc = "loop" /\ pc' = "loop") => queueIndex' = queueIndex + 1]_vars
    /\ <>(pc \in {"done", "threw"})

\* the call returned after opening more sheets of a row without a quantity
\* limit than any limited row of the model allows
C10_Witness ==
    /\ pc = "done"
    /\ queueIndex = Len(candidateQueue) + 1
    /\ \E r \in 1..Len(sheetRows) :
          /\ ~sheetRows[r].limitQuantity
          /\ Cardinality(InstancesOfRow(sheetInstances, sheetRows[r].id)) > MaxQuantity

-----------------------------------------------------------------------------
(* The order of the candidate queue *)

\* a bundle of a long wall with the short wall next to it
LongWithShort(candidate) ==
    \/ PanelIds(candidate) = {"panel-long-a", "panel-short-a"}
    \/ PanelIds(candidate) = {"panel-long-b", "panel-short-b"}

\* bundles, L-cut bundles first, then singles
QueueGroup(candidate) ==
    IF ~candidate.isBundle THEN 3 ELSE IF LongWithShort(candidate) THEN 1 ELSE 2

\* ascending by costImpact, then totalArea, then longestSide, then name
KeysAscending(a, b) ==
    \/ a.costImpact < b.costImpact
    \/ a.costImpact = b.costImpact /\ a.totalArea < b.totalArea
    \/ a.costImpact = b.costImpact /\ a.totalArea = b.totalArea
       /\ a.longestSide < b.longestSide
    \/ a.costImpact = b.costImpact /\ a.totalArea = b.totalArea
       /\ a.longestSide = b.longestSide
       /\ CollationRank(a.name) <= CollationRank(b.name)

QueuePosition(candidateId) ==
    CHOOSE i \in 1..Len(candidateQueue) : candidateQueue[i].id = candidateId

\* C11: the queue holds all bundles before all singles, the L-cut bundles
\* before every other bundle, and each group ascending by costImpact,
\* totalArea, longestSide and name; the candidates are attempted in this
\* order, so the placements follow the queue and come from candidates the
\* loop has passed.
C11_QueueOrder ==
    /\ \A i \in 1..Len(candidateQueue) : \A j \in (i + 1)..Len(candidateQueue) :
          /\ QueueGroup(candidateQueue[i]) <= QueueGroup(candidateQueue[j])
          /\ QueueGroup(candidateQueue[i]) = QueueGroup(candidateQueue[j]) =>
                KeysAscending(candidateQueue[i], candidateQueue[j])
    /\ \A i \in 1..Len(placements) :
          /\ QueuePosition(placements[i].candidateId) < queueIndex
          /\ \A j \in (i + 1)..Len(placements) :
                QueuePosition(placements[i].candidateId)
                  <= QueuePosition(placements[j].candidateId)

\* the call returned for a queue in which an L-cut bundle stands before a
\* cheaper bundle, two singles differ in their names only, and a bundle and
\* a single were both placed
C11_Witness ==
    /\ pc = "done"
    /\ \E i \in 1..Len(candidateQueue) : \E j \in (i + 1)..Len(candidateQueue) :
          /\ QueueGroup(candidateQueue[i]) = 1
          /\ QueueGroup(candidateQueue[j]) = 2
          /\ candidateQueue[j].costImpact < candidateQueue[i].costImpact
    /\ \E i \in 1..Len(candidateQueue) : \E j \in (i + 1)..Len(candidateQueue) :
          /\ QueueGroup(candidateQueue[i]) = 3
          /\ QueueGroup(candidateQueue[j]) = 3
          /\ candidateQueue[i].longestSide = candidateQueue[j].longestSide
          /\ candidateQueue[i].costImpact = candidateQueue[j].costImpact
    /\ \E i \in 1..Len(placements) : placements[i].isBundle
    /\ \E i \in 1..Len(placements) : ~placements[i].isBundle

-----------------------------------------------------------------------------
(* The order of the inventory rows by mode *)

RowIds(rows) == [i \in 1..Len(rows) |-> rows[i].id]

\* the rows the call goes on with: none when it threw
RowsInUse == IF pc = "ordered" THEN sheetRows ELSE << >>

\* the rows are the inventory's rows named by the list, in the list's order;
\* an id that names no row of the inventory stands for no row
FollowsManualOrder(rows, opts) ==
    /\ RowIds(rows)
         = SelectSeq(opts.manualRowOrder,
                     LAMBDA id : \E i \in 1..Len(opts.inventory) : opts.inventory[i].id = id)
    /\ \A i \in 1..Len(rows) : rows[i] \in Range(opts.inventory)

\* the rows are all rows of the inventory, ascending by cost per square foot
\* and then by id, wherever they stood in the inventory
SortedWhateverSupplied(rows, opts) ==
    /\ Len(rows) = Len(opts.inventory)
    /\ Range(rows) = Range(opts.inventory)
    /\ \A i \in 1..Len(rows) : \A j \in (i + 1)..Len(rows) :
          \/ rows[i].costPerSqft < rows[j].costPerSqft
          \/ /\ rows[i].costPerSqft = rows[j].costPerSqft
             /\ CollationRank(rows[i].id) < CollationRank(rows[j].id)

ManualMode(opts) == "mode" \in DOMAIN opts /\ opts.mode = "manual"

-----------------------------------------------------------------------------
(* The liner *)

\* a derived inner dimension of the liner is not positive
LinerCollapsed ==
    \/ Max2(planterInput.length - planterInput.linerDepth, 0) <= 0
    \/ Max2(planterInput.width - planterInput.linerDepth, 0) <= 0
    \/ planterInput.height * linerHeightPercentOf(options) <= 0

LinerPanelCount == Cardinality({ i \in 1..Len(panels) : panels[i].isLiner })

PanelsBuilt == pc \in {"loop", "done"}

\* C13: with the liner enabled and a derived inner dimension <= 0 no liner
\* panel is generated, no placement has isLiner = true and the call does not
\* fail; with all three dimensions > 0 exactly five liner panels are generated.
C13_LinerPanels ==
    planterInput.linerEnabled =>
        /\ (PanelsBuilt /\ ~LinerCollapsed) => LinerPanelCount = 5
        /\ LinerCollapsed =>
              /\ LinerPanelCount = 0
              /\ \A i \in 1..Len(placements) : ~placements[i].isLiner
              /\ result.kind = "result" =>
                    \A i \in 1..Len(result.placements) : ~result.placements[i].isLiner
              /\ (pc = "threw" \/ result.kind = "error") => EmptyInventoryPassed

\* the call returned placements for a box whose liner is as deep as the box
\* is wide
C13_Witness ==
    /\ pc = "done"
    /\ planterInput.linerEnabled
    /\ planterInput.linerDepth >= planterInput.width
    /\ result.kind = "result"
    /\ result.placements # << >>

\* the liner is enabled and as deep as the box is long or wide
LinerEnvelopeCollapsed ==
    /\ planterInput.linerEnabled
    /\ \/ planterInput.linerDepth >= planterInput.length
       \/ planterInput.linerDepth >= planterInput.width

\* C14: when the liner envelope collapses, the result's linerExtraCost is 0
\* and its linerAreaSqft is 0, whatever breakdown rows were supplied.
C14_CollapsedLinerCostsNothing ==
    (result.kind = "result" /\ LinerEnvelopeCollapsed) =>
        /\ result.linerExtraCost = 0
        /\ result.linerAreaSqft = 0

-----------------------------------------------------------------------------
(* The minimal box *)

\* length 36, width 24, height 24, lip 2.125, no shelf and no liner, on an
\* inventory of one 48 x 96 row at 2.73 per square foot with quantity 10
MinimalBoxCall ==
    /\ planterInput.length = In(36) /\ planterInput.width = In(24)
    /\ planterInput.height = In(24) /\ planterInput.lip = 17
    /\ ~planterInput.shelfEnabled /\ ~planterInput.linerEnabled
    /\ "inventory" \in DOMAIN options
    /\ Len(options.inventory) = 1
    /\ options.inventory[1].width = In(48) /\ options.inventory[1].height = In(96)
    /\ options.inventory[1].costPerSqft = 273
    /\ options.inventory[1].limitQuantity /\ options.inventory[1].quantity = 10

PanelSizes == [i \in 1..Len(panels) |-> <<panels[i].type, panels[i].width, panels[i].height>>]

\* every panel is placed, on one or two sheets that are paid for
AllPlacedOnOneOrTwoSheets ==
    /\ result.kind = "result"
    /\ \A i \in 1..Len(panels) :
          \E j \in 1..Len(result.placements) : result.placements[j].panelId = panels[i].id
    /\ Len(result.placements) = Len(panels)
    /\ Len(result.sheetUsages) \in {1, 2}
    /\ result.totalMaterialCost > 0

\* C15 as stated: for the minimal box with all optional features disabled,
\* the floor among them, exactly 5 panels are generated, all 5 are placed on
\* one or two sheet instances, and totalMaterialCost > 0.
C15_FivePanelsAllFeaturesOff ==
    (MinimalBoxCall /\ ~planterInput.floorEnabled /\ pc = "done") =>
        /\ Len(panels) = 5
        /\ AllPlacedOnOneOrTwoSheets

\* C15: for the minimal box with the floor enabled and the other optional
\* features disabled exactly 5 panels are generated, the floor of 24 x 36 and
\* two long and two short walls of height 24 + 2.125; with the floor disabled
\* too, only the 4 walls are generated.  In both cases every panel is placed,
\* on one or two sheet instances, and totalMaterialCost > 0.
C15_MinimalBox ==
    (MinimalBoxCall /\ pc = "done") =>
        /\ planterInput.floorEnabled =>
              PanelSizes = << <<"floor", In(24), In(36)>>,
                              <<"long", In(36), In(24) + 17>>, <<"long", In(36), In(24) + 17>>,
                              <<"short", In(24), In(24) + 17>>, <<"short", In(24), In(24) + 17>> >>
        /\ ~planterInput.floorEnabled =>
              PanelSizes = << <<"long", In(36), In(24) + 17>>, <<"long", In(36), In(24) + 17>>,
                              <<"short", In(24), In(24) + 17>>, <<"short", In(24), In(24) + 17>> >>
        /\ AllPlacedOnOneOrTwoSheets

\* the call returned for the minimal box with its floor
C15_Witness ==
    /\ MinimalBoxCall
    /\ planterInput.floorEnabled
    /\ pc = "done"
    /\ Len(result.placements) = 5

-----------------------------------------------------------------------------
(* The choice of the sheet for a candidate *)

\* the loop is about to attempt the candidate at queueIndex
Attempting == InLoop /\ ~AlreadyPlaced(candidateQueue[queueIndex], placedPanels)

\* the open instances that accept the candidate
AcceptingInstances(candidate) ==
    { i \in 1..Len(sheetInstances) : tryPlaceCandidate(sheetInstances[i], candidate) # << >> }

\* C16: a new sheet instance is opened only if the candidate fits on none of
\* the open instances: whenever an open instance accepts the candidate, the
\* candidate is committed to an open instance, and the number of sheet
\* instances and every row's usage count stay unchanged.
C16_OpenSheetsFirst ==
    [][ (Attempting /\ AcceptingInstances(candidateQueue[queueIndex]) # {}) =>
            /\ Len(sheetInstances') = Len(sheetInstances)
            /\ rowUsage' = rowUsage
            /\ Len(placements') > Len(placements)
            /\ \A k \in (Len(placements) + 1)..Len(placements') :
                  /\ placements'[k].candidateId = candidateQueue[queueIndex].id
                  /\ \E i \in 1..Len(sheetInstances) :
                        sheetInstances[i].id = placements'[k].sheetInstanceId ]_vars

\* a candidate went on an open instance while a row could still give a new
\* sheet that takes the candidate
C16_Witness ==
    /\ lastStep = "existing"
    /\ \E r \in 1..Len(sheetRows) :
          /\ RowUsageOf(rowUsage, sheetRows[r].id) < RowLimit(sheetRows[r])
          /\ tryPlaceCandidate(SheetInstance(sheetRows[r], 0), candidateQueue[queueIndex - 1])
                # << >>

\* sheet area minus used area minus the candidate's area
WasteOn(instance, candidate) ==
    instance.width * instance.height - instance.usedAreaIn2 - candidate.totalArea

\* the accepting instance of least waste, the earliest of them on equal waste
LeastWasteInstance(candidate) ==
    CHOOSE i \in AcceptingInstances(candidate) :
        \A j \in AcceptingInstances(candidate) :
            \/ WasteOn(sheetInstances[i], candidate) < WasteOn(sheetInstances[j], candidate)
            \/ /\ WasteOn(sheetInstances[i], candidate) = WasteOn(sheetInstances[j], candidate)
               /\ i <= j

\* C17: a candidate that fits on several open instances is committed to the
\* one whose waste after the placement (sheet area minus used area minus the
\* candidate's area) is smallest, and on equal waste to the one created
\* earliest.
C17_LeastWasteInstance ==
    [][ (Attempting /\ AcceptingInstances(candidateQueue[queueIndex]) # {}) =>
            /\ Len(placements') > Len(placements)
            /\ \A k \in (Len(placements) + 1)..Len(placements') :
                  placements'[k].sheetInstanceId
                    = sheetInstances[LeastWasteInstance(candidateQueue[queueIndex])].id ]_vars

\* the candidate went on a later instance although an earlier one, with more
\* room left, accepts it too
C17_Witness ==
    /\ lastStep = "existing"
    /\ \E i \in 1..Len(sheetInstances) : \E j \in (i + 1)..Len(sheetInstances) :
          /\ placements[Len(placements)].sheetInstanceId = sheetInstances[j].id
          /\ tryPlaceCandidate(sheetInstances[i], candidateQueue[queueIndex - 1]) # << >>
          /\ WasteOn(sheetInstances[i], candidateQueue[queueIndex - 1])
               > sheetInstances[j].width * sheetInstances[j].height
                 - sheetInstances[j].usedAreaIn2

\* the rows with quantity left on whose empty sheet the candidate fits
EligibleRows(candidate) ==
    { r \in 1..Len(sheetRows) :
        /\ RowUsageOf(rowUsage, sheetRows[r].id) < RowLimit(sheetRows[r])
        /\ tryPlaceCandidate(SheetInstance(sheetRows[r], RowUsageOf(rowUsage, sheetRows[r].id)),
                             candidate) # << >> }

\* one empty sheet of the row holds the candidate and all queued candidates
\* that are still unplaced
HoldsAllRemaining(r) ==
    canFitCandidatesOnSingleSheet(sheetRows[r],
        <<candidateQueue[queueIndex]>>
        \o remainingCandidatesOf(candidateQueue, queueIndex, placedPanels))

WholeSheetCost(r) == sheetRows[r].width * sheetRows[r].height * sheetRows[r].costPerSqft

WasteOnNewSheet(r, candidate) ==
    sheetRows[r].width * sheetRows[r].height - candidate.totalArea

\* r is at least as good as s: holding all remaining first, then the lower
\* whole-sheet cost, then the lower waste, then the earlier row
RowPreferred(r, s, candidate) ==
    \/ HoldsAllRemaining(r) /\ ~HoldsAllRemaining(s)
    \/ /\ HoldsAllRemaining(r) = HoldsAllRemaining(s)
       /\ \/ WholeSheetCost(r) < WholeSheetCost(s)
          \/ /\ WholeSheetCost(r) = WholeSheetCost(s)
             /\ \/ WasteOnNewSheet(r, candidate) < WasteOnNewSheet(s, candidate)
                \/ /\ WasteOnNewSheet(r, candidate) = WasteOnNewSheet(s, candidate)
                   /\ r <= s

BestRow(candidate) ==
    CHOOSE r \in EligibleRows(candidate) :
        \A s \in EligibleRows(candidate) : RowPreferred(r, s, candidate)

\* C18: when a new sheet must be opened, the row chosen among the rows with
\* remaining quantity on which the candidate fits is the best in the order:
\* a row whose empty sheet holds the candidate and all remaining unplaced
\* queued candidates, then lowest whole-sheet cost, then lowest waste after
\* the placement, then the row earliest in the ordered inventory.
C18_BestNewSheet ==
    [][ (/\ Attempting
         /\ AcceptingInstances(candidateQueue[queueIndex]) = {}
         /\ EligibleRows(candidateQueue[queueIndex]) # {}) =>
            /\ Len(sheetInstances') = Len(sheetInstances) + 1
            /\ sheetInstances'[Len(sheetInstances')].rowId
                 = sheetRows[BestRow(candidateQueue[queueIndex])].id
            /\ sheetInstances'[Len(sheetInstances')].placements
                 = SubSeq(placements', Len(placements) + 1, Len(placements')) ]_vars

\* a new sheet was opened from a row that holds all that is left to place,
\* although a row of cheaper sheets with quantity left takes the candidate too
C18_Witness ==
    /\ lastStep = "new"
    /\ \E r \in 1..Len(sheetRows) : \E s \in 1..Len(sheetRows) :
          /\ sheetInstances[Len(sheetInstances)].rowId = sheetRows[s].id
          /\ WholeSheetCost(r) < WholeSheetCost(s)
          /\ RowUsageOf(rowUsage, sheetRows[r].id) < RowLimit(sheetRows[r])
          /\ tryPlaceCandidate(SheetInstance(sheetRows[r], 0), candidateQueue[queueIndex - 1])
                # << >>

-----------------------------------------------------------------------------
(* findPlacementOnSheet *)

\* 0 and the right edges, 0 and the bottom edges of the sheet's placements
RightEdges(sheet) ==
    {0} \cup { sheet.placements[i].x + sheet.placements[i].width : i \in 1..Len(sheet.placements) }

BottomEdges(sheet) ==
    {0} \cup { sheet.placements[i].y + sheet.placements[i].height : i \in 1..Len(sheet.placements) }

\* a w x h rectangle at the anchor (x, y) is in bounds and overlaps nothing
Feasible(sheet, x, y, w, h) ==
    /\ x \in RightEdges(sheet) /\ y \in BottomEdges(sheet)
    /\ x + w <= sheet.width /\ y + h <= sheet.height
    /\ \A i \in 1..Len(sheet.placements) :
          ~ShareArea([x |-> x, y |-> y, width |-> w, height |-> h], sheet.placements[i])

FeasibleSomewhere(sheet, w, h) ==
    \E x \in RightEdges(sheet) : \E y \in BottomEdges(sheet) : Feasible(sheet, x, y, w, h)

\* found is the first feasible position of the orientation w x h: y ascending,
\* then x ascending
FirstInOrientation(sheet, found, w, h) ==
    /\ found.width = w /\ found.height = h
    /\ Feasible(sheet, found.x, found.y, w, h)
    /\ \A x \in RightEdges(sheet) : \A y \in BottomEdges(sheet) :
          Feasible(sheet, x, y, w, h) =>
              found.y < y \/ (found.y = y /\ found.x <= x)

FirstFeasible(sheet, w, h, found) ==
    IF found = << >>
    THEN ~FeasibleSomewhere(sheet, w, h) /\ ~FeasibleSomewhere(sheet, h, w)
    ELSE IF found[1].rotated
    THEN w # h /\ ~FeasibleSomewhere(sheet, w, h) /\ FirstInOrientation(sheet, found[1], h, w)
    ELSE FirstInOrientation(sheet, found[1], w, h)

\* C19: for a w x h rectangle findPlacementOnSheet returns the first feasible
\* position: the unrotated orientation over all anchors, then (only if w # h)
\* the rotated one; within an orientation the y anchors ascending in the outer
\* loop and the x anchors ascending in the inner loop, the anchors being 0 and
\* the right resp. bottom edges of the placements; it returns null only if no
\* anchor position in either orientation is in bounds and free of overlap.
\* Stated for every open sheet and every panel of the call.
C19_FirstFeasiblePosition ==
    \A s \in 1..Len(sheetInstances) : \A i \in 1..Len(panels) :
        FirstFeasible(sheetInstances[s], panels[i].width, panels[i].height,
                      findPlacementOnSheet(sheetInstances[s], panels[i].width, panels[i].height))

\* on one open sheet a panel is found rotated at an anchor below other
\* placements, another is found unrotated to the right of a placement while a
\* position in a lower row at x = 0 is free too, and a third finds no place
C19_Witness ==
    \E s \in 1..Len(sheetInstances) :
        /\ \E i \in 1..Len(panels) :
              LET found == findPlacementOnSheet(sheetInstances[s], panels[i].width,
                                                panels[i].height)
              IN  found # << >> /\ found[1].rotated /\ found[1].y > 0
        /\ \E i \in 1..Len(panels) :
              LET found == findPlacementOnSheet(sheetInstances[s], panels[i].width,
                                                panels[i].height)
              IN  /\ found # << >> /\ ~found[1].rotated /\ found[1].x > 0
                  /\ \E y \in BottomEdges(sheetInstances[s]) :
                        /\ y > found[1].y
                        /\ Feasible(sheetInstances[s], 0, y, panels[i].width, panels[i].height)
        /\ \E i \in 1..Len(panels) :
              findPlacementOnSheet(sheetInstances[s], panels[i].width, panels[i].height) = << >>

-----------------------------------------------------------------------------
(* Bundles *)

PlacementsOf(candidateId) == SelectSeq(placements, LAMBDA p : p.candidateId = candidateId)

\* the placements of a candidate are none, or one for each of its panels in
\* the panels' order, on one sheet instance, marked as a bundle's or not
PlacedWhole(candidate) ==
    LET ps == PlacementsOf(candidate.id)
    IN  \/ ps = << >>
        \/ /\ Len(ps) = Len(candidate.panels)
           /\ \A k \in 1..Len(ps) :
                 /\ ps[k].panelId = candidate.panels[k].id
                 /\ ps[k].sheetInstanceId = ps[1].sheetInstanceId
                 /\ ps[k].isBundle = candidate.isBundle

Rectangle(found) ==
    [x |-> found.x, y |-> found.y, width |-> found.width, height |-> found.height]

\* panel A of the pair in its i-th orientation on the sheet
FirstOfPair(sheet, panelA, i) ==
    findPlacementOnSheet(sheet, getOrientations(panelA.width, panelA.height)[i].width,
                         getOrientations(panelA.width, panelA.height)[i].height)

\* panel B in its j-th orientation on the sheet with panel A's placement added
SecondOfPair(sheet, panelA, panelB, i, j) ==
    findPlacementOnSheet(
        [sheet EXCEPT !.placements = Append(@, Rectangle(FirstOfPair(sheet, panelA, i)[1]))],
        getOrientations(panelB.width, panelB.height)[j].width,
        getOrientations(panelB.width, panelB.height)[j].height)

PairSucceeds(sheet, panelA, panelB, i, j) ==
    /\ FirstOfPair(sheet, panelA, i) # << >>
    /\ SecondOfPair(sheet, panelA, panelB, i, j) # << >>

OrientationPairs(panelA, panelB) ==
    (1..Len(getOrientations(panelA.width, panelA.height)))
    \X (1..Len(getOrientations(panelB.width, panelB.height)))

\* the pair of placements is that of the first pair of orientations that
\* succeeds, A's orientations in the outer loop and B's in the inner
IsFirstPairThatSucceeds(sheet, panelA, panelB, placedA, placedB) ==
    \E o \in OrientationPairs(panelA, panelB) :
        /\ PairSucceeds(sheet, panelA, panelB, o[1], o[2])
        /\ \A e \in OrientationPairs(panelA, panelB) :
              PairSucceeds(sheet, panelA, panelB, e[1], e[2]) =>
                  o[1] < e[1] \/ (o[1] = e[1] /\ o[2] <= e[2])
        /\ Rectangle(placedA) = Rectangle(FirstOfPair(sheet, panelA, o[1])[1])
        /\ Rectangle(placedB) = Rectangle(SecondOfPair(sheet, panelA, panelB, o[1], o[2])[1])
        /\ placedA.rotated = getOrientations(panelA.width, panelA.height)[o[1]].rotated
        /\ placedB.rotated = getOrientations(panelB.width, panelB.height)[o[2]].rotated

\* the sheet the latest commit went to, as it was before the commit
SheetBeforeCommit(count) ==
    LET sheet == sheetInstances[CHOOSE s \in 1..Len(sheetInstances) :
                      sheetInstances[s].id = placements[Len(placements)].sheetInstanceId]
    IN  [sheet EXCEPT !.placements = SubSeq(@, 1, Len(@) - count)]

LatestCommitIsBundle ==
    /\ lastStep \in {"existing", "new"}
    /\ candidateQueue[queueIndex - 1].isBundle

-----------------------------------------------------------------------------
(* L-cut bundles *)

\* the latest commit is a bundle that the L-cut block of lines 1321-1369 placed
LatestCommitIsLCut ==
    /\ LatestCommitIsBundle
    /\ LCutPath(SheetBeforeCommit(2), candidateQueue[queueIndex - 1],
                candidateQueue[queueIndex - 1].panels[1],
                candidateQueue[queueIndex - 1].panels[2]) # << >>

\* the long panel at the anchor, the short one where the long one ends along
\* the combined length, which runs along x, or along y when rotated
TilesCombined(sheet, long, short, placedLong, placedShort) ==
    /\ long.type = "long" /\ short.type = "short" /\ long.height = short.height
    /\ placedLong.panelId = long.id /\ placedShort.panelId = short.id
    /\ placedLong.rotated = placedShort.rotated
    /\ IF placedLong.rotated
       THEN /\ Rectangle(placedLong) = [x |-> placedLong.x, y |-> placedLong.y,
                                        width |-> long.height, height |-> long.width]
            /\ Rectangle(placedShort) = [x |-> placedLong.x, y |-> placedLong.y + long.width,
                                         width |-> long.height, height |-> short.width]
            /\ Feasible(sheet, placedLong.x, placedLong.y, long.height,
                        long.width + short.width)
       ELSE /\ Rectangle(placedLong) = [x |-> placedLong.x, y |-> placedLong.y,
                                        width |-> long.width, height |-> long.height]
            /\ Rectangle(placedShort) = [x |-> placedLong.x + long.width, y |-> placedLong.y,
                                         width |-> short.width, height |-> long.height]
            /\ Feasible(sheet, placedLong.x, placedLong.y, long.width + short.width,
                        long.height)

\* C21: a bundle of a long and a short panel of equal height placed by the
\* L-cut path has two adjacent placements that tile one rectangle of
\* (longLength + shortLength) x height, or height x (longLength + shortLength)
\* when rotated: the long panel starts at the anchor, the short panel where the
\* long one ends, both carry the same rotated flag, and both sub-rectangles are
\* inside the sheet and overlap no placement the sheet held.
C21_LCutTilesOneRectangle ==
    LatestCommitIsLCut =>
        /\ TilesCombined(SheetBeforeCommit(2), candidateQueue[queueIndex - 1].panels[1],
                         candidateQueue[queueIndex - 1].panels[2],
                         placements[Len(placements) - 1], placements[Len(placements)])
        /\ isPlacementInsideSheet(SheetBeforeCommit(2), placements[Len(placements) - 1])
        /\ isPlacementInsideSheet(SheetBeforeCommit(2), placements[Len(placements)])
        /\ PairwiseDisjoint(SheetBeforeCommit(2).placements
                            \o SubSeq(placements, Len(placements) - 1, Len(placements)))

\* an L-cut pair has just gone rotated on a sheet that held placements, the
\* combined length being more than the sheet is wide
C21_Witness ==
    /\ LatestCommitIsLCut
    /\ placements[Len(placements)].rotated
    /\ SheetBeforeCommit(2).placements # << >>
    /\ placements[Len(placements) - 1].height + placements[Len(placements)].height
          > SheetBeforeCommit(2).width

-----------------------------------------------------------------------------
(* The panel list *)

\* how many panels of the list are outer panels of the type and the size
OuterPanelCount(type, width, height) ==
    Cardinality({ i \in 1..Len(panels) :
                    /\ panels[i].type = type /\ ~panels[i].isLiner
                    /\ panels[i].width = width /\ panels[i].height = height })

PanelCountOfType(type) ==
    Cardinality({ i \in 1..Len(panels) : panels[i].type = type /\ ~panels[i].isLiner })

OneIf(enabled) == IF enabled THEN 1 ELSE 0

\* C22: buildPanels produces one floor panel (outer.width x outer.length) iff
\* floorEnabled, always two long panels (outer.length x outer.height) and two
\* short panels (outer.width x outer.height), one shelf panel (outer.width x
\* outer.length) iff shelfEnabled, five liner panels iff the liner is enabled
\* and the inner envelope is valid, and nothing else; all ids are distinct.
C22_PanelList ==
    PanelsBuilt =>
        /\ PanelCountOfType("floor") = OneIf(planterInput.floorEnabled)
        /\ OuterPanelCount("floor", fabricationDims.width, fabricationDims.length)
              = OneIf(planterInput.floorEnabled)
        /\ PanelCountOfType("long") = 2
        /\ OuterPanelCount("long", fabricationDims.length, fabricationDims.height) = 2
        /\ PanelCountOfType("short") = 2
        /\ OuterPanelCount("short", fabricationDims.width, fabricationDims.height) = 2
        /\ PanelCountOfType("shelf") = OneIf(planterInput.shelfEnabled)
        /\ OuterPanelCount("shelf", fabricationDims.width, fabricationDims.length)
              = OneIf(planterInput.shelfEnabled)
        /\ LinerPanelCount = 5 * OneIf(planterInput.linerEnabled /\ ~LinerCollapsed)
        /\ Len(panels) = 4 + OneIf(planterInput.floorEnabled)
                           + OneIf(planterInput.shelfEnabled) + LinerPanelCount
        /\ \A i \in 1..Len(panels) : \A j \in 1..Len(panels) :
              i # j => panels[i].id # panels[j].id

\* the list of a box with floor, shelf and a liner that has room: eleven panels
C22_Witness ==
    /\ PanelsBuilt
    /\ planterInput.floorEnabled /\ planterInput.shelfEnabled
    /\ planterInput.linerEnabled /\ ~LinerCollapsed
    /\ Len(panels) = 11

-----------------------------------------------------------------------------
(* The order of the rows *)

\* row a comes strictly before row b: by the cost of a whole sheet, then by
\* the cost per square foot, then by id
RowBefore(a, b) ==
    \/ a.width * a.height * a.costPerSqft < b.width * b.height * b.costPerSqft
    \/ /\ a.width * a.height * a.costPerSqft = b.width * b.height * b.costPerSqft
       /\ \/ a.costPerSqft < b.costPerSqft
          \/ /\ a.costPerSqft = b.costPerSqft
             /\ CollationRank(a.id) < CollationRank(b.id)

\* the rows of the inventory, each once
SameRows(rows, inventory) ==
    /\ Len(rows) = Len(inventory)
    /\ Range(rows) = Range(inventory)

RowsOrdered == pc \in {"loop", "done"}

\* C23: the rows are considered in ascending order of whole-sheet cost
\* (width * height / 144 * costPerSqft), ties broken by costPerSqft and then
\* by id; the order is total, so the rows considered are the same list
\* wherever the caller put each row in the inventory.
C23_RowsByWholeSheetCost ==
    RowsOrdered =>
        /\ SameRows(sheetRows, options.inventory)
        /\ \A i \in 1..Len(sheetRows) : \A j \in (i + 1)..Len(sheetRows) :
              RowBefore(sheetRows[i], sheetRows[j])
        /\ \A inv \in ShuffledInventories :
              SameRows(inv, options.inventory) => buildOrderedSheetRows(inv) = { sheetRows }

\* two rows of one size and one price were listed with the later id first
C23_Witness ==
    /\ RowsOrdered
    /\ Len(sheetRows) = 2
    /\ sheetRows[1].width * sheetRows[1].height = sheetRows[2].width * sheetRows[2].height
    /\ sheetRows[1].costPerSqft = sheetRows[2].costPerSqft
    /\ options.inventory = << sheetRows[2], sheetRows[1] >>

-----------------------------------------------------------------------------
(* The ids of the sheet instances *)

\* how many of the first s instances were created from the row of the s-th
NumberInRow(sheets, s) ==
    Cardinality({ k \in 1..s : sheets[k].rowId = sheets[s].rowId })

NumberedByRow(sheets, usage) ==
    /\ \A s \in 1..Len(sheets) :
          /\ sheets[s].id = sheets[s].rowId \o "-" \o ToString(NumberInRow(sheets, s))
          /\ \E r \in 1..Len(sheetRows) : sheetRows[r].id = sheets[s].rowId
    /\ \A r \in 1..Len(sheetRows) :
          RowUsageOf(usage, sheetRows[r].id)
            = Cardinality({ s \in 1..Len(sheets) : sheets[s].rowId = sheetRows[r].id })
    /\ \A s \in 1..Len(sheets) : \A k \in 1..Len(sheets) :
          s # k => sheets[s].id # sheets[k].id

\* C24: every sheet instance id is "{rowId}-{n}"; the instances created from
\* a row carry n = 1, 2, ..., k in the order of their creation, with no gap
\* and no repeat, k being the row's usage count; no two sheet instances of the
\* call, nor of the result it returns, share an id.
C24_InstanceIds ==
    /\ NumberedByRow(sheetInstances, rowUsage)
    /\ result.kind = "result" => NumberedByRow(result.sheetUsages, rowUsage)

\* the call returned three sheets, two of them from one row
C24_Witness ==
    /\ result.kind = "result"
    /\ Len(result.sheetUsages) >= 3
    /\ \E s \in 1..Len(result.sheetUsages) : \E k \in 1..Len(result.sheetUsages) :
          /\ s < k
          /\ result.sheetUsages[s].rowId = result.sheetUsages[k].rowId
          /\ \E j \in 1..Len(result.sheetUsages) :
                result.sheetUsages[j].rowId # result.sheetUsages[s].rowId

-----------------------------------------------------------------------------
(* The arguments of the call *)

\* C25: runPlanterSolver leaves its inputs unchanged: no step of the call
\* changes the caller's inventory (its order, its rows, their quantity),
\* planterInput, fabricationDims or breakdowns, and the rows the call works
\* with stay the rows of the inventory, with the quantity they were listed with.
C25_InputsUnchanged ==
    [][/\ planterInput' = planterInput
       /\ fabricationDims' = fabricationDims
       /\ breakdowns' = breakdowns
       /\ options' = options
       /\ RowsOrdered' => SameRows(sheetRows', inventoryOf(options'))]_vars

\* the call returned after it opened two sheets of a row with an enforced
\* quantity, from an inventory that was not listed in the order of cost
C25_Witness ==
    /\ pc = "done"
    /\ "inventory" \in DOMAIN options
    /\ sheetRows # options.inventory
    /\ \E r \in 1..Len(options.inventory) :
          /\ options.inventory[r].limitQuantity
          /\ RowUsageOf(rowUsage, options.inventory[r].id) = 2

-----------------------------------------------------------------------------
(* The rotated flag *)

\* the flag says how the placement's size relates to the blueprint's
FlagMatchesSize(placement, panel) ==
    /\ placement.rotated <=>
          /\ panel.width # panel.height
          /\ placement.width = panel.height /\ placement.height = panel.width
    /\ ~placement.rotated <=>
          (placement.width = panel.width /\ placement.height = panel.height)

\* C26: for every placement the rotated flag is true exactly when the
\* placement's (width, height) is the blueprint's (height, width) with
\* width # height, and false exactly when it is the blueprint's (width,
\* height): for single placements, ordinary bundle placements and L-cut
\* placements.
C26_RotatedFlagMatchesSize ==
    \A k \in 1..Len(placements) :
        FlagMatchesSize(placements[k], PanelById(panels, placements[k].panelId))

-----------------------------------------------------------------------------
(* Panels that stay unplaced *)

\* the panel fits some open instance, in one of its orientations
FitsOpenInstance(panel) ==
    \E s \in 1..Len(sheetInstances) :
        \/ FeasibleSomewhere(sheetInstances[s], panel.width, panel.height)
        \/ FeasibleSomewhere(sheetInstances[s], panel.height, panel.width)

\* the panel fits an empty sheet of a row that has quantity left
FitsRowWithQuantityLeft(panel) ==
    \E r \in 1..Len(sheetRows) :
        /\ ~TooLarge(panel, sheetRows[r])
        /\ \/ ~sheetRows[r].limitQuantity
           \/ RowUsageOf(rowUsage, sheetRows[r].id) < sheetRows[r].quantity

FitsUnlimitedRow(panel) ==
    \E r \in 1..Len(sheetRows) : ~sheetRows[r].limitQuantity /\ ~TooLarge(panel, sheetRows[r])

\* each panel is queued once as a single candidate
EveryPanelQueuedAlone ==
    \A i \in 1..Len(panels) :
        Cardinality({ q \in 1..Len(candidateQueue) :
                        candidateQueue[q].panels = << panels[i] >> }) = 1

\* the returned placements hold every panel that fits a row of unlimited quantity
UnlimitedRowPanelsPlaced ==
    pc = "done" =>
        \A i \in 1..Len(panels) :
            FitsUnlimitedRow(panels[i]) =>
                \E k \in 1..Len(result.placements) :
                    result.placements[k].panelId = panels[i].id

AttemptingSingle == Attempting /\ ~candidateQueue[queueIndex].isBundle

\* C27: a panel that fits an empty sheet of a row with limitQuantity = false
\* is in the final placements; each panel is queued as a single candidate, and
\* when that candidate is attempted the panel stays unplaced exactly if it fits
\* no open instance and no row that has quantity left.
C27_UnplacedOnlyIfNothingFits ==
    [][/\ AttemptingSingle =>
             (candidateQueue[queueIndex].panels[1].id \notin placedPanels'
                <=> /\ ~FitsOpenInstance(candidateQueue[queueIndex].panels[1])
                    /\ ~FitsRowWithQuantityLeft(candidateQueue[queueIndex].panels[1]))
       /\ PanelsBuilt' => EveryPanelQueuedAlone'
       /\ UnlimitedRowPanelsPlaced']_vars

\* the call returned with a panel unplaced that fits a row whose quantity ran
\* out, and with panels on two sheets of a row of unlimited quantity
C27_Witness ==
    /\ pc = "done"
    /\ \E i \in 1..Len(panels) :
          /\ panels[i].id \notin placedPanels
          /\ \E r \in 1..Len(sheetRows) :
                /\ ~TooLarge(panels[i], sheetRows[r])
                /\ sheetRows[r].limitQuantity
                /\ sheetRows[r].quantity > 0
                /\ RowUsageOf(rowUsage, sheetRows[r].id) = sheetRows[r].quantity
    /\ \E r \in 1..Len(sheetRows) :
          /\ ~sheetRows[r].limitQuantity
          /\ RowUsageOf(rowUsage, sheetRows[r].id) >= 2

-----------------------------------------------------------------------------
(* Sheet instances and placements *)

CommittedCandidates(ps) == { ps[k].candidateId : k \in 1..Len(ps) }

\* no sheet is empty or a lookahead sheet, each row's usage count is the
\* number of its sheets, and there are no more sheets than committed candidates
OnlyCommittedSheets(sheets, ps) ==
    /\ \A s \in 1..Len(sheets) :
          /\ sheets[s].placements # << >>
          /\ sheets[s].id # "temp-sheet"
    /\ \A r \in 1..Len(sheetRows) :
          RowUsageOf(rowUsage, sheetRows[r].id)
            = Cardinality({ s \in 1..Len(sheets) : sheets[s].rowId = sheetRows[r].id })
    /\ DOMAIN rowUsage \subseteq { sheets[s].rowId : s \in 1..Len(sheets) }
    /\ Len(sheets) <= Cardinality(CommittedCandidates(ps))

\* C28: every sheet instance, and every entry of sheetUsages, holds at least
\* one placement; a row's usage count equals the number of sheet instances
\* created from it; trial sheets and the lookahead sheet never enter
\* sheetInstances or rowUsage, so there are at most as many sheet instances as
\* committed candidates.
C28_OnlyCommittedSheets ==
    /\ OnlyCommittedSheets(sheetInstances, placements)
    /\ result.kind = "result" => OnlyCommittedSheets(result.sheetUsages, result.placements)

\* the call returned fewer sheets than it committed candidates, and opened no
\* sheet of a row although a placed panel fits a sheet of that row
C28_Witness ==
    /\ result.kind = "result"
    /\ Len(result.sheetUsages) >= 2
    /\ Len(result.sheetUsages) < Cardinality(CommittedCandidates(result.placements))
    /\ \E r \in 1..Len(sheetRows) :
          /\ RowUsageOf(rowUsage, sheetRows[r].id) = 0
          /\ RowLimit(sheetRows[r]) > 0
          /\ \E k \in 1..Len(placements) :
                ~TooLarge(PanelById(panels, placements[k].panelId), sheetRows[r])

\* how often the placement occurs on the sheets
Occurrences(sheets, placement) ==
    UNION { { <<s, k>> : k \in { j \in 1..Len(sheets[s].placements) :
                                     sheets[s].placements[j] = placement } } :
            s \in 1..Len(sheets) }

PlacementsAgree(sheets, ps) ==
    /\ \A k \in 1..Len(ps) :
          /\ ps[k].sheetInstanceId # "temp-sheet"
          /\ Cardinality(Occurrences(sheets, ps[k])) = 1
          /\ \A o \in Occurrences(sheets, ps[k]) :
                /\ sheets[o[1]].id = ps[k].sheetInstanceId
                /\ sheets[o[1]].rowId = ps[k].rowId
    /\ \A s \in 1..Len(sheets) : \A k \in 1..Len(sheets[s].placements) :
          \E j \in 1..Len(ps) : ps[j] = sheets[s].placements[k]

\* C29: the placements list and the sheet instances agree: every placement
\* occurs once, in the placements list of one sheet, whose id is the
\* placement's sheetInstanceId and whose rowId is its rowId; no sheet holds a
\* placement that the list lacks; no placement carries the id 'temp-sheet'.
\* For the running call and for the result it returns.
C29_PlacementsAgree ==
    /\ PlacementsAgree(sheetInstances, placements)
    /\ result.kind = "result" => PlacementsAgree(result.sheetUsages, result.placements)

\* the call returned placements on three sheets, a later candidate having gone
\* on an earlier sheet than the candidate before it
C29_Witness ==
    /\ result.kind = "result"
    /\ Len(result.sheetUsages) >= 3
    /\ \E k \in 1..(Len(result.placements) - 1) :
          \E s \in 2..Len(result.sheetUsages) : \E e \in 1..(s - 1) :
              /\ result.placements[k].sheetInstanceId = result.sheetUsages[s].id
              /\ result.placements[k + 1].sheetInstanceId = result.sheetUsages[e].id

-----------------------------------------------------------------------------
(* A candidate that finds no place *)

\* no open instance and no row with quantity left takes the candidate
FindsNoPlace(candidate) ==
    /\ AcceptingInstances(candidate) = {}
    /\ EligibleRows(candidate) = {}

\* C30: when a candidate cannot be placed, the solver state after the attempt
\* is the state before it: the sheet instances with their placements and used
\* areas, every row's usage count, the placements, the placed panels and the
\* bundle savings are unchanged, and the loop goes on with the next candidate.
C30_DropChangesNothing ==
    [][(Attempting /\ FindsNoPlace(candidateQueue[queueIndex])) =>
           /\ sheetInstances' = sheetInstances
           /\ rowUsage' = rowUsage
           /\ placements' = placements
           /\ placedPanels' = placedPanels
           /\ bundleSavings' = bundleSavings
           /\ queueIndex' = queueIndex + 1
           /\ pc' = pc]_vars

\* a bundle has just been dropped while sheets were open, and an empty sheet
\* of a row takes its first panel alone
C30_Witness ==
    /\ lastStep = "drop"
    /\ pc = "loop"
    /\ candidateQueue[queueIndex - 1].isBundle
    /\ sheetInstances # << >>
    /\ PanelIds(candidateQueue[queueIndex - 1]) \cap placedPanels = {}
    /\ \E r \in 1..Len(sheetRows) :
          /\ ~TooLarge(candidateQueue[queueIndex - 1].panels[1], sheetRows[r])
          /\ RowUsageOf(rowUsage, sheetRows[r].id) < RowLimit(sheetRows[r])

====
